---- MODULE Spec2Model ----
(***************************************************************************)
(* Worker Manager of vision-insight-api (src/worker_manager.py) with the   *)
(* memory admission check of src/core/memory.py.                           *)
(*                                                                         *)
(* The manager runs on one asyncio event loop.  A handler runs atomically  *)
(* from one await to the next, so every action below is one such segment.  *)
(* spawn_worker holds self.lock across its awaits (health check, settle    *)
(* sleep, startup poll); stop_worker, touch_worker, shutdown and the body  *)
(* of the idle monitor contain no await and take no lock.                  *)
(*                                                                         *)
(* Memory is counted in units of 0.5 GB so that every table value of       *)
(* MODEL_MEMORY_REQUIREMENTS is an integer.  time.time() is modelled as a  *)
(* clock that never runs backwards.                                        *)
(***************************************************************************)
EXTENDS Integers, Sequences, FiniteSets, TLC

VARIABLES
    workers,    \* self.workers: the WorkerProcess records, in dict insertion order
    proc,       \* the operating system's view of the children, by pid
    signals,    \* what the last stop_worker call of the step just taken sent to
                \* its child (empty when the step stopped nothing)
    nextPid,    \* pid the next Popen gets
    next_port,  \* self._next_port
    lock,       \* holder of self.lock (0: free)
    waiters,    \* callers waiting in self.lock, first come first served
    task,       \* local state of each spawn_worker call
    ret,        \* outcome of each caller's last spawn call
    now,        \* time.time()
    ext,        \* host memory used by anything but the workers, as the last probe
                \* of the spawn in progress saw it (0 between spawns)
    config_models,  \* the gateway's config.models: its aliases in file order
    gw,         \* the gateway: the public request in progress and its answer
    est         \* a call of get_model_memory_requirement: arguments and result

vars == <<workers, proc, signals, nextPid, next_port, lock, waiters, task, ret, now, ext,
          config_models, gw, est>>

\* the state outside the Worker Manager's handlers
outside == <<config_models, gw, est>>

----------------------------------------------------------------------------
(* Bounds *)

NumCallers == 2     \* concurrent POST /spawn requests
MaxPid == 2         \* children created in one behaviour
MaxTime == 1        \* clock values 0..MaxTime
MaxCount == 1       \* touches counted per record
StartupPolls == 2   \* iterations of the startup poll (range(60) in the code)
MaxModels == 2      \* models in the config.yaml the gateway reads

Callers == 1..NumCallers

----------------------------------------------------------------------------
(* Configuration and program constants *)

\* config.models: the aliases of config.yaml
ConfigModels == {"vlm-fast", "vlm-best", "custom", "image-gen"}

\* the aliases the clients of Spec ask for: two configured ones, and "ghost",
\* an alias no configuration knows
Aliases == {"vlm-fast", "custom", "ghost"}

\* pids: those of the children started in a behaviour, and above them those
\* of the workers that are resident when a behaviour of SpecEvict begins
Pids == 1..(MaxPid + Cardinality(ConfigModels))

ModelPath(a) ==
    CASE a = "vlm-fast"  -> "mlx-community/Qwen2.5-VL-7B-Instruct-4bit"
      [] a = "image-gen" -> "Qwen/Qwen-Image-2512"
      [] OTHER           -> "mlx-community/Qwen2.5-VL-14B-Instruct-4bit"

ModelType(a) == IF a = "image-gen" THEN "diffusion" ELSE "vlm"

\* A Python str as the sequence of its characters, for the names and paths
\* that occur in this module
Text(s) ==
    CASE s = "mlx-community/moondream2" ->
            <<"m", "l", "x", "-", "c", "o", "m", "m", "u", "n", "i", "t", "y", "/", "m", "o", "o", "n", "d", "r", "e", "a", "m", "2">>
      [] s = "mlx-community/Qwen2.5-VL-3B-Instruct-4bit" ->
            <<"m", "l", "x", "-", "c", "o", "m", "m", "u", "n", "i", "t", "y", "/", "Q", "w", "e", "n", "2", ".", "5", "-", "V", "L", "-", "3", "B", "-", "I", "n", "s", "t", "r", "u", "c", "t", "-", "4", "b", "i", "t">>
      [] s = "mlx-community/Qwen2.5-VL-7B-Instruct-4bit" ->
            <<"m", "l", "x", "-", "c", "o", "m", "m", "u", "n", "i", "t", "y", "/", "Q", "w", "e", "n", "2", ".", "5", "-", "V", "L", "-", "7", "B", "-", "I", "n", "s", "t", "r", "u", "c", "t", "-", "4", "b", "i", "t">>
      [] s = "mlx-community/Qwen2.5-VL-14B-Instruct-4bit" ->
            <<"m", "l", "x", "-", "c", "o", "m", "m", "u", "n", "i", "t", "y", "/", "Q", "w", "e", "n", "2", ".", "5", "-", "V", "L", "-", "1", "4", "B", "-", "I", "n", "s", "t", "r", "u", "c", "t", "-", "4", "b", "i", "t">>
      [] s = "mlx-community/FLUX.1-schnell-4bit-mlx" ->
            <<"m", "l", "x", "-", "c", "o", "m", "m", "u", "n", "i", "t", "y", "/", "F", "L", "U", "X", ".", "1", "-", "s", "c", "h", "n", "e", "l", "l", "-", "4", "b", "i", "t", "-", "m", "l", "x">>
      [] s = "mlx-community/FLUX.1-dev-4bit-mlx" ->
            <<"m", "l", "x", "-", "c", "o", "m", "m", "u", "n", "i", "t", "y", "/", "F", "L", "U", "X", ".", "1", "-", "d", "e", "v", "-", "4", "b", "i", "t", "-", "m", "l", "x">>
      [] s = "Qwen/Qwen-Image-2512" ->
            <<"Q", "w", "e", "n", "/", "Q", "w", "e", "n", "-", "I", "m", "a", "g", "e", "-", "2", "5", "1", "2">>
      [] s = "_default_vlm" ->
            <<"_", "d", "e", "f", "a", "u", "l", "t", "_", "v", "l", "m">>
      [] s = "_default_diffusion" ->
            <<"_", "d", "e", "f", "a", "u", "l", "t", "_", "d", "i", "f", "f", "u", "s", "i", "o", "n">>
      [] s = "_default_cuda_diffusion" ->
            <<"_", "d", "e", "f", "a", "u", "l", "t", "_", "c", "u", "d", "a", "_", "d", "i", "f", "f", "u", "s", "i", "o", "n">>
      [] s = "mlx-community/qwen2.5-vl-3b-instruct-4bit" ->
            <<"m", "l", "x", "-", "c", "o", "m", "m", "u", "n", "i", "t", "y", "/", "q", "w", "e", "n", "2", ".", "5", "-", "v", "l", "-", "3", "b", "-", "i", "n", "s", "t", "r", "u", "c", "t", "-", "4", "b", "i", "t">>
      [] s = "acme/Llama-14B" ->
            <<"a", "c", "m", "e", "/", "L", "l", "a", "m", "a", "-", "1", "4", "B">>
      [] s = "acme/mix-7b-14B" ->
            <<"a", "c", "m", "e", "/", "m", "i", "x", "-", "7", "b", "-", "1", "4", "B">>
      [] s = "acme/Mistral-7B" ->
            <<"a", "c", "m", "e", "/", "M", "i", "s", "t", "r", "a", "l", "-", "7", "B">>
      [] s = "acme/Llama-13B" ->
            <<"a", "c", "m", "e", "/", "L", "l", "a", "m", "a", "-", "1", "3", "B">>
      [] s = "acme/Phi-3b-7B" ->
            <<"a", "c", "m", "e", "/", "P", "h", "i", "-", "3", "b", "-", "7", "B">>
      [] s = "acme/gemma-2b" ->
            <<"a", "c", "m", "e", "/", "g", "e", "m", "m", "a", "-", "2", "b">>
      [] s = "acme/Tiny-1B" ->
            <<"a", "c", "m", "e", "/", "T", "i", "n", "y", "-", "1", "B">>
      [] s = "acme/duo-1b-3B" ->
            <<"a", "c", "m", "e", "/", "d", "u", "o", "-", "1", "b", "-", "3", "B">>
      [] s = "acme/vit-large" ->
            <<"a", "c", "m", "e", "/", "v", "i", "t", "-", "l", "a", "r", "g", "e">>
      [] s = "acme/sdxl-turbo" ->
            <<"a", "c", "m", "e", "/", "s", "d", "x", "l", "-", "t", "u", "r", "b", "o">>
      [] s = "vlm-fast" ->
            <<"v", "l", "m", "-", "f", "a", "s", "t">>
      [] s = "vlm-best" ->
            <<"v", "l", "m", "-", "b", "e", "s", "t">>
      [] s = "image-gen" ->
            <<"i", "m", "a", "g", "e", "-", "g", "e", "n">>
      [] s = "custom" ->
            <<"c", "u", "s", "t", "o", "m">>
      [] s = "GPT-4o" ->
            <<"G", "P", "T", "-", "4", "o">>
      [] s = "my-Claude" ->
            <<"m", "y", "-", "C", "l", "a", "u", "d", "e">>
      [] s = "claude-3" ->
            <<"c", "l", "a", "u", "d", "e", "-", "3">>
      [] s = "llava" ->
            <<"l", "l", "a", "v", "a">>
      [] OTHER -> <<>>

UpperCase == <<"A", "B", "C", "D", "E", "F", "G", "H", "I", "J", "K", "L", "M",
               "N", "O", "P", "Q", "R", "S", "T", "U", "V", "W", "X", "Y", "Z">>
LowerCase == <<"a", "b", "c", "d", "e", "f", "g", "h", "i", "j", "k", "l", "m",
               "n", "o", "p", "q", "r", "s", "t", "u", "v", "w", "x", "y", "z">>

lower_Identity(s) ==
    s

\* str.lower()
lower(s) ==
    [i \in 1..Len(s) |->
        IF \E k \in 1..26 : UpperCase[k] = s[i]
        THEN LowerCase[CHOOSE k \in 1..26 : UpperCase[k] = s[i]]
        ELSE s[i]]

\* the "in" of two Python strs: sub occurs in s
Contains(sub, s) ==
    \E i \in 0..(Len(s) - Len(sub)) : SubSeq(s, i + 1, i + Len(sub)) = sub

\* model paths outside MODEL_MEMORY_REQUIREMENTS that a config.yaml may name
OtherPaths ==
    {"mlx-community/qwen2.5-vl-3b-instruct-4bit",
     "acme/Llama-14B",
     "acme/mix-7b-14B",
     "acme/Mistral-7B",
     "acme/Llama-13B",
     "acme/Phi-3b-7B",
     "acme/gemma-2b",
     "acme/Tiny-1B",
     "acme/duo-1b-3B",
     "acme/vit-large",
     "acme/sdxl-turbo"}

\* MODEL_MEMORY_REQUIREMENTS, in units of 0.5 GB
MODEL_MEMORY_REQUIREMENTS(path) ==
    CASE path = "mlx-community/moondream2"                    -> 3
      [] path = "mlx-community/Qwen2.5-VL-3B-Instruct-4bit"   -> 5
      [] path = "mlx-community/Qwen2.5-VL-7B-Instruct-4bit"   -> 9
      [] path = "mlx-community/Qwen2.5-VL-14B-Instruct-4bit"  -> 16
      [] path = "mlx-community/FLUX.1-schnell-4bit-mlx"       -> 12
      [] path = "mlx-community/FLUX.1-dev-4bit-mlx"           -> 24
      [] path = "Qwen/Qwen-Image-2512"                        -> 40
      [] path = "_default_vlm"                                -> 6
      [] path = "_default_diffusion"                          -> 16
      [] path = "_default_cuda_diffusion"                     -> 40
      [] OTHER                                                -> 0

KnownPaths ==
    {"mlx-community/moondream2", "mlx-community/Qwen2.5-VL-3B-Instruct-4bit",
     "mlx-community/Qwen2.5-VL-7B-Instruct-4bit",
     "mlx-community/Qwen2.5-VL-14B-Instruct-4bit",
     "mlx-community/FLUX.1-schnell-4bit-mlx", "mlx-community/FLUX.1-dev-4bit-mlx",
     "Qwen/Qwen-Image-2512", "_default_vlm", "_default_diffusion",
     "_default_cuda_diffusion"}

\* an estimate that tries the patterns from the smallest size up
get_model_memory_requirement_SmallestFirst(path, type) ==
    IF path \in KnownPaths THEN MODEL_MEMORY_REQUIREMENTS(path)
    ELSE LET path_lower == lower(Text(path))
         IN  IF Contains(<<"2", "b">>, path_lower)
                \/ Contains(<<"1", "b">>, path_lower) THEN 3
             ELSE IF Contains(<<"3", "b">>, path_lower) THEN 5
             ELSE IF Contains(<<"7", "b">>, path_lower) THEN 9
             ELSE IF Contains(<<"1", "4", "b">>, path_lower) THEN 16
             ELSE IF type = "diffusion"
                  THEN MODEL_MEMORY_REQUIREMENTS("_default_diffusion")
             ELSE MODEL_MEMORY_REQUIREMENTS("_default_vlm")

\* get_model_memory_requirement: the table entry of the path; else the
\* estimate by the size pattern in the lower-cased path, the first of the
\* if/elif chain that matches; else the default of the type
get_model_memory_requirement(path, type) ==
    IF path \in KnownPaths THEN MODEL_MEMORY_REQUIREMENTS(path)
    ELSE LET path_lower == lower(Text(path))
         IN  IF Contains(<<"1", "4", "b">>, path_lower) THEN 16
             ELSE IF Contains(<<"7", "b">>, path_lower) THEN 9
             ELSE IF Contains(<<"3", "b">>, path_lower) THEN 5
             ELSE IF Contains(<<"2", "b">>, path_lower)
                     \/ Contains(<<"1", "b">>, path_lower) THEN 3
             ELSE IF type = "diffusion"
                  THEN MODEL_MEMORY_REQUIREMENTS("_default_diffusion")
             ELSE MODEL_MEMORY_REQUIREMENTS("_default_vlm")

safety_margin_gb == 8           \* MemoryConfig.safety_margin_gb = 4.0 GB
TotalMemory == 48               \* host memory, 24 GB
ExtVals == {0, 36}              \* memory other programs may hold (0 or 18 GB)

IDLE_TIMEOUT_SECONDS == 0           \* env IDLE_TIMEOUT, in clock ticks
MAX_REQUESTS_BEFORE_RESTART == 1    \* env MAX_REQUESTS

port_map(a) ==
    CASE a = "vlm-fast"  -> 8001
      [] a = "vlm-best"  -> 8002
      [] a = "image-gen" -> 8003
      [] OTHER           -> 0
FixedAliases == {"vlm-fast", "vlm-best", "image-gen"}
BasePort == 8010

----------------------------------------------------------------------------
(* Helpers on the state *)

NoProc == [state |-> "none", port |-> 0, mem |-> 0]
Exited == [state |-> "exited", port |-> 0, mem |-> 0]
\* drop: the record this call has deleted at line 114 (its pid, and whether
\* it was deleted because poll() reported the child's exit); freed: what
\* _evict_for_memory has counted for the workers this call has evicted
NoDrop == [pid |-> 0, dead |-> FALSE]
NoTask == [pc |-> "idle", alias |-> "", pid |-> 0, port |-> 0, hres |-> "none",
           i |-> 0, evq |-> <<>>, freed |-> 0, to_free |-> 0, drop |-> NoDrop]
NoRet == [kind |-> "none", pid |-> 0, port |-> 0]

\* the gateway between two requests, and no call of the estimate
NoReply == [status |-> 0, detail |-> ""]
NoGw == [pc |-> "idle", endpoint |-> "", arg |-> "", alias |-> "", port |-> 0,
         calls |-> <<>>, reply |-> NoReply, status |-> 0, detail |-> "",
         workers |-> {}]
NoEst == [path |-> "", type |-> "", gb |-> -1]

\* the gateway reads the config.yaml of the manager and serves no request
OutsideIdle ==
    /\ config_models = <<"vlm-fast", "vlm-best", "custom", "image-gen">>
    /\ gw = NoGw
    /\ est = NoEst

Range(s) == {s[k] : k \in 1..Len(s)}

\* alias in self.workers
InWorkers(W, a) == \E k \in 1..Len(W) : W[k].alias = a

\* self.workers[alias]
WorkerOf(W, a) == W[CHOOSE k \in 1..Len(W) : W[k].alias = a]

\* a delete that leaves the record in the map
DelWorker_Keeps(W, a) == W

\* del self.workers[alias]
RECURSIVE DelWorker(_, _)
DelWorker(W, a) ==
    IF W = <<>> THEN <<>>
    ELSE IF Head(W).alias = a THEN DelWorker(Tail(W), a)
    ELSE <<Head(W)>> \o DelWorker(Tail(W), a)

\* process.poll() is None
Alive(P, p) == P[p].state \in {"starting", "ready"}

\* some child serves HTTP on the port
Listening(P, port) == \E p \in Pids : P[p].state = "ready" /\ P[p].port = port

\* memory held by the running children (a child holds its model's footprint)
RECURSIVE SumMem(_, _)
SumMem(P, S) ==
    IF S = {} THEN 0
    ELSE LET p == CHOOSE q \in S : TRUE
         IN P[p].mem + SumMem(P, S \ {p})

\* a probe that does not see what the running children hold
get_memory_status_NoChildren(P, e) ==
    TotalMemory - e

\* get_memory_status().available: what the running children and the rest of
\* the host leave of the total
get_memory_status(P, e) ==
    LET a == TotalMemory - e - SumMem(P, Pids)
    IN IF a < 0 THEN 0 ELSE a

----------------------------------------------------------------------------
(* src/core/memory.py *)

\* an admission check that keeps no safety margin
can_load_model_NoMargin(a, P, e) ==
    get_memory_status(P, e) >= get_model_memory_requirement(ModelPath(a), ModelType(a))

\* can_load_model: effective_available >= required_gb
can_load_model(a, P, e) ==
    get_memory_status(P, e) - safety_margin_gb
        >= get_model_memory_requirement(ModelPath(a), ModelType(a))

----------------------------------------------------------------------------
(* WorkerManager *)

\* _get_port: the port handed out, and self._next_port afterwards
\* every alias draws from the pool
GetPort_PoolForAll(a) == next_port

GetPort(a) == IF a \in FixedAliases THEN port_map(a) ELSE next_port
\* a port counter that stands still
GetPortNext_Stuck(a) == next_port

GetPortNext(a) == IF a \in FixedAliases THEN next_port ELSE next_port + 1

\* os.killpg(SIGTERM), process.wait(timeout=5), and os.killpg(SIGKILL) when
\* the wait timed out; termOk says whether the child exits within the wait.
\* For a child that has exited already, getpgid raises and nothing is sent.
KillSignals(P, p, termOk) ==
    IF ~Alive(P, p) THEN <<>>
    ELSE IF termOk THEN <<"SIGTERM">>
    ELSE <<"SIGTERM", "SIGKILL">>

\* a stop that does not escalate to SIGKILL
KillChild_NoEscalation(P, p, termOk) == IF termOk THEN [P EXCEPT ![p] = Exited] ELSE P

\* the child is gone after the call: SIGTERM ended it, or SIGKILL did
KillChild(P, p, termOk) == [P EXCEPT ![p] = Exited]

\* a stop_worker that signals the child but keeps its record
stop_worker_KeepsRecord(W, P, a, termOk) ==
    IF ~InWorkers(W, a)
    THEN [workers |-> W, proc |-> P, signals |-> <<>>, ok |-> FALSE]
    ELSE [workers |-> W,
          proc |-> KillChild(P, WorkerOf(W, a).pid, termOk),
          signals |-> KillSignals(P, WorkerOf(W, a).pid, termOk),
          ok |-> TRUE]

\* stop_worker(alias) on map W and process table P
stop_worker(W, P, a, termOk) ==
    IF ~InWorkers(W, a)
    THEN [workers |-> W, proc |-> P, signals |-> <<>>, ok |-> FALSE]
    ELSE [workers |-> DelWorker(W, a),
          proc |-> KillChild(P, WorkerOf(W, a).pid, termOk),
          signals |-> KillSignals(P, WorkerOf(W, a).pid, termOk),
          ok |-> TRUE]

\* sorted(self.workers.items(), key=last_used): stable insertion sort
RECURSIVE InsertByLastUsed(_, _)
InsertByLastUsed(s, w) ==
    IF s = <<>> THEN <<w>>
    ELSE IF Head(s).last_used <= w.last_used
         THEN <<Head(s)>> \o InsertByLastUsed(Tail(s), w)
         ELSE <<w>> \o s

\* an eviction order that takes the map as it is
workers_by_idle_MapOrder(W) == W

RECURSIVE workers_by_idle(_)
workers_by_idle(W) ==
    IF W = <<>> THEN <<>>
    ELSE InsertByLastUsed(workers_by_idle(SubSeq(W, 1, Len(W) - 1)), W[Len(W)])

\* the eviction loop keeps (alias, worker) pairs and reads worker.memory_gb
EvictEntry(w) == [alias |-> w.alias, memory_gb |-> w.memory_gb]

\* the end of a spawn_worker call: leaves "async with self.lock"
Return(t, kind, pid, port, d) ==
    /\ task' = [task EXCEPT ![t] = [NoTask EXCEPT !.pc = "done", !.alias = task[t].alias,
                                                   !.freed = task[t].freed, !.drop = d]]
    /\ ret' = [ret EXCEPT ![t] = [kind |-> kind, pid |-> pid, port |-> port]]
    /\ lock' = 0

\* a new record that counts its own start as a request
WorkerProcess_CountsStart(a, pid, port, mem, time) ==
    [alias |-> a, pid |-> pid, port |-> port, memory_gb |-> mem,
     started_at |-> time, last_used |-> time, request_count |-> 1]

\* WorkerProcess(...): a new record
WorkerProcess(a, pid, port, mem, time) ==
    [alias |-> a, pid |-> pid, port |-> port, memory_gb |-> mem,
     started_at |-> time, last_used |-> time, request_count |-> 0]

\* lines 145-183: allocate the port, start the child, insert the record and
\* send the first health check of the startup poll
Fork(t, a, W, P, e, d) ==
    LET pid == nextPid
        port == GetPort(a)
        mem == get_model_memory_requirement(ModelPath(a), ModelType(a))
    IN /\ workers' = Append(W, WorkerProcess(a, pid, port, mem, now))
       /\ proc' = [P EXCEPT ![pid] = [state |-> "starting", port |-> port, mem |-> mem]]
       /\ signals' = <<>>
       /\ nextPid' = nextPid + 1
       /\ next_port' = GetPortNext(a)
       /\ ext' = e
       /\ task' = [task EXCEPT ![t] = [NoTask EXCEPT !.pc = "hc_poll", !.alias = a,
                                       !.pid = pid, !.port = port, !.hres = "pending",
                                       !.freed = task[t].freed, !.drop = d]]
       /\ lock' = t
       /\ UNCHANGED ret

\* a re-check that starts the child whatever the probe reports
Recheck_NoProbe(t, a, W, P, d) == \E e \in ExtVals : Fork(t, a, W, P, e, d)

\* lines 134-143: probe again; start the child or raise MemoryError
Recheck(t, a, W, P, d) ==
    \E e \in ExtVals :
        IF can_load_model(a, P, e)
        THEN Fork(t, a, W, P, e, d)
        ELSE /\ workers' = W
             /\ proc' = P
             /\ signals' = <<>>
             /\ ext' = e
             /\ Return(t, "OutOfMemory", 0, 0, d)
             /\ UNCHANGED <<nextPid, next_port>>

\* a loop that goes on to the end of the list whatever it has counted
EvictRound_NoBreak(t, a, W, P, e, q, freed, to_free, d) ==
    IF q = <<>>
    THEN Recheck(t, a, W, P, d)
    ELSE \E termOk \in BOOLEAN :
            LET r == stop_worker(W, P, Head(q).alias, termOk)
            IN /\ workers' = r.workers
               /\ proc' = r.proc
               /\ signals' = r.signals
               /\ ext' = e
               /\ task' = [task EXCEPT ![t] =
                             [NoTask EXCEPT !.pc = "evict_sleep", !.alias = a,
                                            !.evq = Tail(q),
                                            !.freed = freed + Head(q).memory_gb,
                                            !.to_free = to_free, !.drop = d]]
               /\ lock' = t
               /\ UNCHANGED <<nextPid, next_port, ret>>

\* one round of the loop of _evict_for_memory, up to its sleep(0.5): q is the
\* rest of workers_by_idle, freed what the rounds before have counted
EvictRound(t, a, W, P, e, q, freed, to_free, d) ==
    IF q = <<>> \/ freed >= to_free
    THEN Recheck(t, a, W, P, d)
    ELSE \E termOk \in BOOLEAN :
            LET r == stop_worker(W, P, Head(q).alias, termOk)
            IN /\ workers' = r.workers
               /\ proc' = r.proc
               /\ signals' = r.signals
               /\ ext' = e
               /\ task' = [task EXCEPT ![t] =
                             [NoTask EXCEPT !.pc = "evict_sleep", !.alias = a,
                                            !.evq = Tail(q),
                                            !.freed = freed + Head(q).memory_gb,
                                            !.to_free = to_free, !.drop = d]]
               /\ lock' = t
               /\ UNCHANGED <<nextPid, next_port, ret>>

\* an eviction that takes the deficit from the effective available memory,
\* which is never below zero
Admit_ClampedDeficit(t, a, W, P, d) ==
    IF a \notin ConfigModels
    THEN /\ workers' = W
         /\ proc' = P
         /\ Return(t, "NotFound", 0, 0, d)
         /\ signals' = <<>> /\ UNCHANGED <<nextPid, next_port, ext>>
    ELSE \E e1 \in ExtVals :
            IF can_load_model(a, P, e1)
            THEN Fork(t, a, W, P, e1, d)
            ELSE \E e2 \in ExtVals :
                    LET needed == get_model_memory_requirement(ModelPath(a), ModelType(a))
                        effective == get_memory_status(P, e2) - safety_margin_gb
                        to_free == needed - (IF effective > 0 THEN effective ELSE 0)
                        q == workers_by_idle(W)
                    IN IF to_free <= 0
                       THEN Recheck(t, a, W, P, d)
                       ELSE EvictRound(t, a, W, P, e2,
                                       [k \in 1..Len(q) |-> EvictEntry(q[k])], 0, to_free, d)

\* lines 116-132: catalog lookup, admission check, start of the eviction
Admit(t, a, W, P, d) ==
    IF a \notin ConfigModels
    THEN /\ workers' = W
         /\ proc' = P
         /\ Return(t, "NotFound", 0, 0, d)
         /\ signals' = <<>> /\ UNCHANGED <<nextPid, next_port, ext>>
    ELSE \E e1 \in ExtVals :
            IF can_load_model(a, P, e1)
            THEN Fork(t, a, W, P, e1, d)
            ELSE \E e2 \in ExtVals :
                    LET needed == get_model_memory_requirement(ModelPath(a), ModelType(a))
                        to_free == needed - (get_memory_status(P, e2) - safety_margin_gb)
                        q == workers_by_idle(W)
                    IN IF to_free <= 0
                       THEN Recheck(t, a, W, P, d)
                       ELSE EvictRound(t, a, W, P, e2,
                                       [k \in 1..Len(q) |-> EvictEntry(q[k])], 0, to_free, d)

----------------------------------------------------------------------------
(* POST /spawn/{alias}: spawn_worker, one action per segment between awaits *)

\* request slots are interchangeable: a request takes the lowest free one
FreeSlot(t) ==
    /\ task[t].pc = "idle"
    /\ \A u \in Callers : u < t => task[u].pc # "idle"

\* the request arrives and queues for self.lock
SpawnCall(t, a) ==
    /\ UNCHANGED outside
    /\ FreeSlot(t)
    /\ task' = [task EXCEPT ![t] = [NoTask EXCEPT !.pc = "wait", !.alias = a]]
    /\ waiters' = Append(waiters, t)
    /\ signals' = <<>> /\ UNCHANGED <<workers, proc, nextPid, next_port, lock, ret, now, ext>>

\* a lock that hands itself to the first waiter although it is held
LockGrant_NoExclusion(t) == waiters # <<>> /\ Head(waiters) = t

\* asyncio.Lock: free, and t is the longest waiting caller
LockGrant(t) == lock = 0 /\ waiters # <<>> /\ Head(waiters) = t

\* lines 105-110: take the lock; a record whose child runs gets a health
\* check, any other record is dropped and the spawn goes on
SpawnAcquire(t) ==
    /\ UNCHANGED outside
    /\ task[t].pc = "wait"
    /\ LockGrant(t)
    /\ nextPid <= MaxPid
    /\ waiters' = Tail(waiters)
    /\ UNCHANGED now
    /\ LET a == task[t].alias
       IN IF InWorkers(workers, a) /\ Alive(proc, WorkerOf(workers, a).pid)
          THEN /\ task' = [task EXCEPT ![t].pc = "hc_fast",
                                       ![t].pid = WorkerOf(workers, a).pid,
                                       ![t].port = WorkerOf(workers, a).port,
                                       ![t].hres = "pending"]
               /\ lock' = t
               /\ signals' = <<>> /\ UNCHANGED <<workers, proc, nextPid, next_port, ret, ext>>
          ELSE Admit(t, a, DelWorker(workers, a), proc,
                     IF InWorkers(workers, a)
                     THEN [pid |-> WorkerOf(workers, a).pid, dead |-> TRUE]
                     ELSE NoDrop)

\* _is_worker_healthy: the answer 200 to GET /health arrives; it needs a
\* child serving on the port.  A call that resumes while the request is
\* still pending has seen it time out or fail.
HealthReply(t) ==
    /\ UNCHANGED outside
    /\ task[t].hres = "pending"
    /\ Listening(proc, task[t].port)
    /\ task' = [task EXCEPT ![t].hres = "ok"]
    /\ signals' = <<>> /\ UNCHANGED <<workers, proc, nextPid, next_port, lock, waiters, ret, now, ext>>

\* a refresh that counts as a request, as touch does
SetLastUsed_AlsoCounts(W, pid, time) ==
    [k \in 1..Len(W) |-> IF W[k].pid = pid
                         THEN [W[k] EXCEPT !.last_used = time,
                                           !.request_count = W[k].request_count + 1]
                         ELSE W[k]]

\* a refresh that takes the start time of the worker for the current time
SetLastUsed_StartedAt(W, pid, time) ==
    [k \in 1..Len(W) |-> IF W[k].pid = pid
                         THEN [W[k] EXCEPT !.last_used = W[k].started_at]
                         ELSE W[k]]

\* worker.last_used = time.time() on the record object the call holds; the
\* object is identified by its pid, and it may have left the map meanwhile
SetLastUsed(W, pid, time) ==
    [k \in 1..Len(W) |-> IF W[k].pid = pid THEN [W[k] EXCEPT !.last_used = time]
                         ELSE W[k]]

\* lines 110-114: healthy: refresh last_used and return the record;
\* otherwise del self.workers[alias] and go on to spawn
SpawnFastResume(t) ==
    /\ UNCHANGED outside
    /\ task[t].pc = "hc_fast"
    /\ UNCHANGED <<waiters, now>>
    /\ LET a == task[t].alias
       IN IF task[t].hres = "ok"
          THEN /\ workers' = SetLastUsed(workers, task[t].pid, now)
               /\ Return(t, "WorkerRecord", task[t].pid, task[t].port, NoDrop)
               /\ signals' = <<>> /\ UNCHANGED <<proc, nextPid, next_port, ext>>
          ELSE IF ~InWorkers(workers, a)
               THEN /\ Return(t, "KeyError", 0, 0, NoDrop)
                    /\ signals' = <<>> /\ UNCHANGED <<workers, proc, nextPid, next_port, ext>>
               ELSE Admit(t, a, DelWorker(workers, a), proc,
                          [pid |-> WorkerOf(workers, a).pid, dead |-> FALSE])

\* _evict_for_memory after a sleep(0.5): next round of the loop
SpawnEvictResume(t) ==
    /\ UNCHANGED outside
    /\ task[t].pc = "evict_sleep"
    /\ UNCHANGED <<waiters, now>>
    /\ EvictRound(t, task[t].alias, workers, proc, ext, task[t].evq,
                  task[t].freed, task[t].to_free, task[t].drop)

\* a startup poll without a deadline
SpawnPollResume_NoDeadline(t) ==
    /\ UNCHANGED outside
    /\ task[t].pc = "hc_poll"
    /\ UNCHANGED <<nextPid, next_port, waiters, now, ext>>
    /\ IF task[t].hres = "ok"
       THEN /\ Return(t, "WorkerRecord", task[t].pid, task[t].port, task[t].drop)
            /\ signals' = <<>> /\ UNCHANGED <<workers, proc>>
       ELSE /\ task' = [task EXCEPT ![t].i = (task[t].i + 1) % StartupPolls]
            /\ signals' = <<>> /\ UNCHANGED <<workers, proc, lock, ret>>

\* a startup poll that gives up without stopping the child
SpawnPollResume_NoStop(t) ==
    /\ UNCHANGED outside
    /\ task[t].pc = "hc_poll"
    /\ UNCHANGED <<nextPid, next_port, waiters, now, ext>>
    /\ IF task[t].hres = "ok"
       THEN /\ Return(t, "WorkerRecord", task[t].pid, task[t].port, task[t].drop)
            /\ signals' = <<>> /\ UNCHANGED <<workers, proc>>
       ELSE IF task[t].i + 1 < StartupPolls
       THEN /\ task' = [task EXCEPT ![t].i = task[t].i + 1]
            /\ signals' = <<>> /\ UNCHANGED <<workers, proc, lock, ret>>
       ELSE /\ Return(t, "StartupFailure", 0, 0, task[t].drop)
            /\ signals' = <<>> /\ UNCHANGED <<workers, proc>>

\* lines 182-191: one round of the startup poll.  200: return the record.
\* Otherwise sleep(1) and ask again, or after the last round stop_worker and
\* RuntimeError.  (The sleep and the next request are one wait here: what
\* can happen during the one can happen during the other.)
SpawnPollResume(t) ==
    /\ UNCHANGED outside
    /\ task[t].pc = "hc_poll"
    /\ UNCHANGED <<nextPid, next_port, waiters, now, ext>>
    /\ IF task[t].hres = "ok"
       THEN /\ Return(t, "WorkerRecord", task[t].pid, task[t].port, task[t].drop)
            /\ signals' = <<>> /\ UNCHANGED <<workers, proc>>
       ELSE IF task[t].i + 1 < StartupPolls
       THEN /\ task' = [task EXCEPT ![t].i = task[t].i + 1]
            /\ signals' = <<>> /\ UNCHANGED <<workers, proc, lock, ret>>
       ELSE \E termOk \in BOOLEAN :
               LET r == stop_worker(workers, proc, task[t].alias, termOk)
               IN /\ workers' = r.workers
                  /\ proc' = r.proc
                  /\ signals' = r.signals
                  /\ Return(t, "StartupFailure", 0, 0, task[t].drop)

\* lines 366-382: the HTTP status of the outcome; an exception the handler
\* does not catch has none
HttpStatus(kind) ==
    CASE kind = "WorkerRecord"   -> 200
      [] kind = "NotFound"       -> 404
      [] kind = "OutOfMemory"    -> 503
      [] kind = "StartupFailure" -> 500
      [] OTHER                   -> 0

\* the response leaves the manager and the request is over
SpawnRespond(t) ==
    /\ UNCHANGED outside
    /\ task[t].pc = "done"
    /\ task' = [task EXCEPT ![t] = NoTask]
    /\ ret' = [ret EXCEPT ![t] = NoRet]
    /\ ext' = 0
    /\ signals' = <<>> /\ UNCHANGED <<workers, proc, nextPid, next_port, lock, waiters, now>>

----------------------------------------------------------------------------
(* The handlers without await *)

\* POST /stop/{alias}
Stop(a) ==
    /\ UNCHANGED outside
    /\ UNCHANGED <<nextPid, next_port, lock, waiters, task, ret, now, ext>>
    /\ \E termOk \in BOOLEAN :
          LET r == stop_worker(workers, proc, a, termOk)
          IN /\ workers' = r.workers
             /\ proc' = r.proc
             /\ signals' = r.signals

\* a touch that counts the request twice
touch_worker_CountsTwice(w, time) ==
    [w EXCEPT !.last_used = time, !.request_count = w.request_count + 2]

\* a touch that forgets the request count
touch_worker_NoCount(w, time) == [w EXCEPT !.last_used = time]

\* touch_worker: the record after the touch
touch_worker(w, time) ==
    [w EXCEPT !.last_used = time, !.request_count = w.request_count + 1]

\* POST /touch/{alias}
Touch(a) ==
    /\ UNCHANGED outside
    /\ signals' = <<>> /\ UNCHANGED <<proc, nextPid, next_port, lock, waiters, task, ret, now, ext>>
    /\ IF InWorkers(workers, a)
       THEN /\ WorkerOf(workers, a).request_count < MaxCount
            /\ workers' = [k \in 1..Len(workers) |->
                             IF workers[k].alias = a
                             THEN touch_worker(workers[k], now) ELSE workers[k]]
       ELSE UNCHANGED workers

\* stop_worker for every alias of a list, one after the other
RECURSIVE StopEach(_, _, _, _, _)
StopEach(W, P, S, todo, termSet) ==
    IF todo = <<>> THEN [workers |-> W, proc |-> P, signals |-> S]
    ELSE LET a == Head(todo)
             r == stop_worker(W, P, a, a \in termSet)
         IN StopEach(r.workers, r.proc, IF r.ok THEN r.signals ELSE S,
                     Tail(todo), termSet)

AliasesOf(W) == [k \in 1..Len(W) |-> W[k].alias]

\* POST /stop-all and the shutdown of the manager
StopAll ==
    /\ UNCHANGED outside
    /\ UNCHANGED <<nextPid, next_port, lock, waiters, task, ret, now, ext>>
    /\ workers # <<>>
    /\ \E termSet \in SUBSET Range(AliasesOf(workers)) :
          LET r == StopEach(workers, proc, <<>>, AliasesOf(workers), termSet)
          IN /\ workers' = r.workers
             /\ proc' = r.proc
             /\ signals' = r.signals

\* a sweep that does not look at last_used
Marked_NoIdle(P, w) ==
    \/ ~Alive(P, w.pid)
    \/ w.request_count >= MAX_REQUESTS_BEFORE_RESTART

\* a sweep that does not look at request_count
Marked_NoRecycle(P, w) ==
    \/ ~Alive(P, w.pid)
    \/ now - w.last_used > IDLE_TIMEOUT_SECONDS

\* a sweep that does not poll the children
Marked_NoPoll(P, w) ==
    \/ now - w.last_used > IDLE_TIMEOUT_SECONDS
    \/ w.request_count >= MAX_REQUESTS_BEFORE_RESTART

\* the marks of one sweep of _monitor_idle_workers
Marked(P, w) ==
    \/ ~Alive(P, w.pid)
    \/ now - w.last_used > IDLE_TIMEOUT_SECONDS
    \/ w.request_count >= MAX_REQUESTS_BEFORE_RESTART

\* a sweep that marks every worker
to_stop_Everyone(W, P) ==
    [k \in 1..Len(W) |-> W[k].alias]

RECURSIVE to_stop(_, _)
to_stop(W, P) ==
    IF W = <<>> THEN <<>>
    ELSE (IF Marked(P, Head(W)) THEN <<Head(W).alias>> ELSE <<>>) \o to_stop(Tail(W), P)

\* one tick of _monitor_idle_workers
Sweep ==
    /\ UNCHANGED outside
    /\ UNCHANGED <<nextPid, next_port, lock, waiters, task, ret, now, ext>>
    /\ to_stop(workers, proc) # <<>>
    /\ \E termSet \in SUBSET Range(to_stop(workers, proc)) :
          LET r == StopEach(workers, proc, <<>>, to_stop(workers, proc), termSet)
          IN /\ workers' = r.workers
             /\ proc' = r.proc
             /\ signals' = r.signals

----------------------------------------------------------------------------
(* The environment *)

\* a starting child has loaded its model and serves its port; a port that
\* another child serves cannot be bound
ChildReady(p) ==
    /\ UNCHANGED outside
    /\ proc[p].state = "starting"
    /\ ~Listening(proc, proc[p].port)
    /\ proc' = [proc EXCEPT ![p].state = "ready"]
    /\ signals' = <<>> /\ UNCHANGED <<workers, nextPid, next_port, lock, waiters, task, ret, now, ext>>

\* a child exits by itself (crash, failure to bind its port)
ChildExit(p) ==
    /\ UNCHANGED outside
    /\ Alive(proc, p)
    /\ proc' = [proc EXCEPT ![p] = Exited]
    /\ signals' = <<>> /\ UNCHANGED <<workers, nextPid, next_port, lock, waiters, task, ret, now, ext>>

Tick ==
    /\ UNCHANGED outside
    /\ now < MaxTime
    /\ now' = now + 1
    /\ signals' = <<>> /\ UNCHANGED <<workers, proc, nextPid, next_port, lock, waiters, task, ret, ext>>

----------------------------------------------------------------------------

Init ==
    /\ workers = <<>>
    /\ proc = [p \in Pids |-> NoProc]
    /\ signals = <<>>
    /\ nextPid = 1
    /\ next_port = BasePort
    /\ lock = 0
    /\ waiters = <<>>
    /\ task = [t \in Callers |-> NoTask]
    /\ ret = [t \in Callers |-> NoRet]
    /\ now = 0
    /\ ext = 0
    /\ OutsideIdle

\* no spawn request is in progress
Quiet == \A t \in Callers : task[t].pc = "idle"

\* no request is between two steps that the event loop runs without
\* yielding: a request that finds the lock free takes it at once (line 105),
\* and the handler answers as soon as spawn_worker has returned (line 378)
Yielded == \A t \in Callers : task[t].pc \notin {"wait", "done"}

\* Spawn requests arrive one after the other; stop, touch, stop-all, the
\* sweep, the clock and the children run in between and at every await of
\* a spawn.  (A request waiting for the lock does nothing until it holds
\* it, so overlapping requests add no behaviour of the manager; SpecBurst
\* below has them.)
Next ==
    \/ \E t \in Callers, a \in Aliases : Quiet /\ SpawnCall(t, a)
    \/ \E t \in Callers : SpawnAcquire(t)
    \/ \E t \in Callers : SpawnRespond(t)
    \/ \E t \in Callers : Yielded /\ HealthReply(t)
    \/ \E t \in Callers : Yielded /\ SpawnFastResume(t)
    \/ \E t \in Callers : Yielded /\ SpawnEvictResume(t)
    \/ \E t \in Callers : Yielded /\ SpawnPollResume(t)
    \/ \E a \in Aliases : Yielded /\ Stop(a)
    \/ \E a \in Aliases : Yielded /\ Touch(a)
    \/ Yielded /\ StopAll
    \/ Yielded /\ Sweep
    \/ \E p \in Pids : Yielded /\ ChildReady(p)
    \/ \E p \in Pids : Yielded /\ ChildExit(p)
    \/ Yielded /\ Tick

Spec == Init /\ [][Next]_vars

----------------------------------------------------------------------------
(* NumCallers concurrent spawn requests for one alias, from a cold start,  *)
(* with children that do not crash and answer GET /health once they serve. *)

\* the orders in which the callers can stand in the lock's queue
Perms == {q \in [Callers -> Callers] : \A t, u \in Callers : t # u => q[t] # q[u]}

InitBurst ==
    /\ workers = <<>>
    /\ proc = [p \in Pids |-> NoProc]
    /\ signals = <<>>
    /\ nextPid = 1
    /\ next_port = BasePort
    /\ lock = 0
    /\ waiters \in Perms
    /\ \E a \in ConfigModels :
          task = [t \in Callers |-> [NoTask EXCEPT !.pc = "wait", !.alias = a]]
    /\ ret = [t \in Callers |-> NoRet]
    /\ now = 0
    /\ ext = 0
    /\ OutsideIdle

\* a child that serves answers the health check: the request of t is not
\* left to time out while a child serves its port
Serving(t) == task[t].hres = "pending" => ~Listening(proc, task[t].port)

NextBurst ==
    \/ \E t \in Callers : SpawnAcquire(t)
    \/ \E t \in Callers : HealthReply(t)
    \/ \E t \in Callers : Serving(t) /\ SpawnFastResume(t)
    \/ \E t \in Callers : Serving(t) /\ SpawnPollResume(t)
    \/ \E p \in Pids : ChildReady(p)
    \/ Tick

SpecBurst == InitBurst /\ [][NextBurst]_vars

----------------------------------------------------------------------------
(* One spawn request for a configured alias that finds other workers       *)
(* resident: the workers earlier requests have started and that serve.     *)

\* the resident aliases in the order they entered the map: no alias twice,
\* not the requested one, and together within what admission lets in
RECURSIVE SumRequired(_)
SumRequired(q) ==
    IF q = <<>> THEN 0
    ELSE get_model_memory_requirement(ModelPath(Head(q)), ModelType(Head(q)))
            + SumRequired(Tail(q))

ResidentOrders(target) ==
    {q \in UNION {[1..n -> ConfigModels \ {target}] : n \in 0..(Cardinality(ConfigModels) - 1)} :
        /\ \A i, j \in 1..Len(q) : i # j => q[i] # q[j]
        /\ SumRequired(q) <= TotalMemory - safety_margin_gb}

\* the port an earlier spawn gave the resident
ResidentPort(a) == IF a \in FixedAliases THEN port_map(a) ELSE BasePort

InitEvict ==
    \E target \in ConfigModels : \E q \in ResidentOrders(target) :
    \E used \in [1..Len(q) -> 0..MaxTime] :
        /\ workers = [k \in 1..Len(q) |->
                        [WorkerProcess(q[k], MaxPid + k, ResidentPort(q[k]),
                                       get_model_memory_requirement(ModelPath(q[k]),
                                                                    ModelType(q[k])), 0)
                            EXCEPT !.last_used = used[k]]]
        /\ proc = [p \in Pids |->
                     IF p \in (MaxPid + 1)..(MaxPid + Len(q))
                     THEN [state |-> "ready", port |-> ResidentPort(q[p - MaxPid]),
                           mem |-> get_model_memory_requirement(ModelPath(q[p - MaxPid]),
                                                                ModelType(q[p - MaxPid]))]
                     ELSE NoProc]
        /\ signals = <<>>
        /\ nextPid = 1
        /\ next_port = IF \E k \in 1..Len(q) : q[k] \notin FixedAliases
                       THEN BasePort + 1 ELSE BasePort
        /\ lock = 0
        /\ waiters = <<1>>
        /\ task = [t \in Callers |->
                     IF t = 1 THEN [NoTask EXCEPT !.pc = "wait", !.alias = target]
                     ELSE NoTask]
        /\ ret = [t \in Callers |-> NoRet]
        /\ now = MaxTime
        /\ ext = 0
        /\ OutsideIdle

NextEvict ==
    \/ \E t \in Callers : SpawnAcquire(t)
    \/ \E t \in Callers : SpawnEvictResume(t)
    \/ \E t \in Callers : HealthReply(t)
    \/ \E t \in Callers : SpawnPollResume(t)
    \/ \E p \in Pids : ChildReady(p)

SpecEvict == InitEvict /\ [][NextEvict]_vars

----------------------------------------------------------------------------
(* The idle monitor at work on resident workers: no spawn is in progress,  *)
(* the workers are touched, their children may exit, the clock runs, and   *)
(* the monitor loop (lines 247-277) comes round again and again.           *)

InitSweep ==
    \E q \in ResidentOrders("") :
        /\ workers = [k \in 1..Len(q) |->
                        WorkerProcess(q[k], MaxPid + k, ResidentPort(q[k]),
                                      get_model_memory_requirement(ModelPath(q[k]),
                                                                   ModelType(q[k])), 0)]
        /\ proc = [p \in Pids |->
                     IF p \in (MaxPid + 1)..(MaxPid + Len(q))
                     THEN [state |-> "ready", port |-> ResidentPort(q[p - MaxPid]),
                           mem |-> get_model_memory_requirement(ModelPath(q[p - MaxPid]),
                                                                ModelType(q[p - MaxPid]))]
                     ELSE NoProc]
        /\ signals = <<>>
        /\ nextPid = 1
        /\ next_port = IF \E k \in 1..Len(q) : q[k] \notin FixedAliases
                       THEN BasePort + 1 ELSE BasePort
        /\ lock = 0
        /\ waiters = <<>>
        /\ task = [t \in Callers |-> NoTask]
        /\ ret = [t \in Callers |-> NoRet]
        /\ now = 0
        /\ ext = 0
        /\ OutsideIdle

NextSweep ==
    \/ Sweep
    \/ \E a \in ConfigModels : Touch(a)
    \/ \E p \in Pids : ChildExit(p)
    \/ Tick

\* "while self._running: await asyncio.sleep(HEALTH_CHECK_INTERVAL)", with
\* every Exception of the body caught: a sweep that has work to do happens
SpecSweep == InitSweep /\ [][NextSweep]_vars /\ WF_vars(Sweep)

----------------------------------------------------------------------------
(* Recycling: resident workers serve requests (touch), the monitor stops   *)
(* those that have reached MAX_REQUESTS_BEFORE_RESTART, and spawn requests *)
(* for the configured aliases arrive one after the other.  The clock       *)
(* stands still, so that no worker is swept for being idle.                *)

NextRecycle ==
    \/ \E t \in Callers, a \in ConfigModels : Quiet /\ SpawnCall(t, a)
    \/ \E t \in Callers : SpawnAcquire(t)
    \/ \E t \in Callers : SpawnRespond(t)
    \/ \E t \in Callers : Yielded /\ HealthReply(t)
    \/ \E t \in Callers : Yielded /\ SpawnFastResume(t)
    \/ \E t \in Callers : Yielded /\ SpawnEvictResume(t)
    \/ \E t \in Callers : Yielded /\ SpawnPollResume(t)
    \/ \E a \in ConfigModels : Yielded /\ Touch(a)
    \/ Yielded /\ Sweep
    \/ \E p \in Pids : Yielded /\ ChildReady(p)

SpecRecycle == InitSweep /\ [][NextRecycle]_vars

----------------------------------------------------------------------------
(* Spawn requests for one alias that queue for the lock while other        *)
(* workers are resident.  The event loop resumes every coroutine that can  *)
(* run: the lock is handed on, and a sleep or a health check (which has a  *)
(* timeout) comes back.  Nothing is assumed of the children that the     *)
(* requests start: one may become ready, exit, or do neither.  The calls  *)
(* ask for the same alias, so the order they queue in makes no difference. *)

InitLive ==
    \E target \in ConfigModels : \E q \in ResidentOrders(target) :
        /\ workers = [k \in 1..Len(q) |->
                        WorkerProcess(q[k], MaxPid + k, ResidentPort(q[k]),
                                      get_model_memory_requirement(ModelPath(q[k]),
                                                                   ModelType(q[k])), 0)]
        /\ proc = [p \in Pids |->
                     IF p \in (MaxPid + 1)..(MaxPid + Len(q))
                     THEN [state |-> "ready", port |-> ResidentPort(q[p - MaxPid]),
                           mem |-> get_model_memory_requirement(ModelPath(q[p - MaxPid]),
                                                                ModelType(q[p - MaxPid]))]
                     ELSE NoProc]
        /\ signals = <<>>
        /\ nextPid = 1
        /\ next_port = IF \E k \in 1..Len(q) : q[k] \notin FixedAliases
                       THEN BasePort + 1 ELSE BasePort
        /\ lock = 0
        /\ waiters = [t \in Callers |-> t]
        /\ task = [t \in Callers |-> [NoTask EXCEPT !.pc = "wait", !.alias = target]]
        /\ ret = [t \in Callers |-> NoRet]
        /\ now = MaxTime
        /\ ext = 0
        /\ OutsideIdle

NextLive ==
    \/ \E t \in Callers : SpawnAcquire(t)
    \/ \E t \in Callers : HealthReply(t)
    \/ \E t \in Callers : SpawnFastResume(t)
    \/ \E t \in Callers : SpawnEvictResume(t)
    \/ \E t \in Callers : SpawnPollResume(t)
    \/ \E p \in Pids : ChildReady(p)
    \/ \E p \in 1..MaxPid : ChildExit(p)

SpecLive ==
    /\ InitLive
    /\ [][NextLive]_vars
    /\ \A t \in Callers :
          /\ WF_vars(SpawnAcquire(t))
          /\ WF_vars(SpawnFastResume(t))
          /\ WF_vars(SpawnEvictResume(t))
          /\ WF_vars(SpawnPollResume(t))

----------------------------------------------------------------------------
(* The gateway (src/gateway/main.py) and its Supervisor                    *)
(* (src/core/supervisor.py).  The Worker Manager and the workers are its   *)
(* environment here: their answers are inputs.  Public requests are taken  *)
(* one after the other; each action is a handler from one await to the     *)
(* next.                                                                   *)

inside == <<workers, proc, signals, nextPid, next_port, lock, waiters, task, ret, now, ext>>

\* the aliases a config.yaml may define, and the orders it may list them in
GatewayCatalog == {"vlm-fast", "vlm-best", "image-gen", "custom"}
ConfigOrders ==
    {q \in UNION {[1..n -> GatewayCatalog] : n \in 0..MaxModels} :
        \A i, j \in 1..Len(q) : i # j => q[i] # q[j]}

\* request.model of a chat request, request.task of an analysis
ChatModels == {"vlm-fast", "custom", "GPT-4o", "my-Claude", "claude-3", "llava"}
Tasks == {"caption", "ocr", "describe", "analyze"}

\* "alias in config.models"
Configured(a) == \E i \in 1..Len(config_models) : config_models[i] = a

\* what POST /spawn/{alias} of the manager can answer (lines 366-382 of
\* worker_manager.py), "Uncaught" for an exception its handler lets through,
\* and "ConnectError" when the manager cannot be reached
SpawnAnswers ==
    {"WorkerRecord", "NotFound", "OutOfMemory", "StartupFailure", "Uncaught", "ConnectError"}
ManagerStatus(kind) ==
    CASE kind = "Uncaught"     -> 500
      [] kind = "ConnectError" -> 0
      [] OTHER                 -> HttpStatus(kind)

\* the ports the manager's _get_port can give the alias
ManagerPorts(a) == IF a \in FixedAliases THEN {port_map(a)} ELSE {BasePort, BasePort + 1}

\* a request arrives: the answer of the last one is gone, the Supervisor's
\* self.workers stays
Request(endpoint, arg) ==
    [NoGw EXCEPT !.endpoint = endpoint, !.arg = arg, !.workers = gw.workers]

\* raise HTTPException(status_code, detail)
HTTPException(g, status_code, detail) ==
    [g EXCEPT !.pc = "done", !.status = status_code, !.detail = detail]

\* an exception that no handler of the gateway catches: the framework
\* answers 500 with its own text
Uncaught(g) ==
    [g EXCEPT !.pc = "done", !.status = 500, !.detail = "Internal Server Error"]

Call(g, call, alias, port) ==
    Append(g.calls, [call |-> call, alias |-> alias, port |-> port])

\* supervisor.py 82-84: get_worker takes the Supervisor's lock, which is
\* free, and calls POST /spawn/{alias}
get_worker(g, alias) ==
    [g EXCEPT !.pc = "spawn", !.alias = alias, !.calls = Call(g, "spawn", alias, 0)]

\* main.py 74-87
chat_completions(m) ==
    /\ gw.pc \in {"idle", "done"}
    /\ UNCHANGED <<config_models, est>> /\ UNCHANGED inside
    /\ LET g == Request("chat", m)
           model_lower == lower(Text(m))
       IN  IF Configured(m) THEN gw' = get_worker(g, m)
           ELSE IF Contains(<<"g", "p", "t">>, model_lower)
                   \/ Contains(<<"c", "l", "a", "u", "d", "e">>, model_lower)
                THEN gw' = get_worker(g, "vlm-fast")
           ELSE gw' = HTTPException(g, 404, "Model not found")

generate_images_NoCheck ==
    /\ gw.pc \in {"idle", "done"}
    /\ UNCHANGED <<config_models, est>> /\ UNCHANGED inside
    /\ gw' = get_worker(Request("generate", ""), "image-gen")

\* main.py 128-132
generate_images ==
    /\ gw.pc \in {"idle", "done"}
    /\ UNCHANGED <<config_models, est>> /\ UNCHANGED inside
    /\ LET g == Request("generate", "")
       IN  IF ~Configured("image-gen")
           THEN gw' = HTTPException(g, 404, "Diffusion model not configured")
           ELSE gw' = get_worker(g, "image-gen")

\* main.py 179-183
edit_images ==
    /\ gw.pc \in {"idle", "done"}
    /\ UNCHANGED <<config_models, est>> /\ UNCHANGED inside
    /\ LET g == Request("edit", "")
       IN  IF ~Configured("image-gen")
           THEN gw' = HTTPException(g, 404, "Diffusion model not configured")
           ELSE gw' = get_worker(g, "image-gen")

\* main.py 235-240; list(config.models.keys())[0] of an empty config is an
\* IndexError
analyze_image(rtask) ==
    /\ gw.pc \in {"idle", "done"}
    /\ UNCHANGED <<config_models, est>> /\ UNCHANGED inside
    /\ LET g == Request("analyze", rtask)
           chosen == IF rtask \in {"analyze", "describe"} THEN "vlm-best" ELSE "vlm-fast"
       IN  IF Configured(chosen) THEN gw' = get_worker(g, chosen)
           ELSE IF Configured("vlm-fast") THEN gw' = get_worker(g, "vlm-fast")
           ELSE IF config_models = <<>> THEN gw' = Uncaught(g)
           ELSE gw' = get_worker(g, config_models[1])

\* a get_worker that goes on whatever the manager answers
SpawnReply_IgnoresStatus(kind, port) ==
    /\ gw.pc = "spawn"
    /\ UNCHANGED <<config_models, est>> /\ UNCHANGED inside
    /\ LET g == [gw EXCEPT !.reply = [status |-> ManagerStatus(kind), detail |-> kind]]
       IN  gw' = [g EXCEPT !.pc = "touch", !.port = port,
                           !.workers = @ \cup {g.alias},
                           !.calls = Call(g, "touch", g.alias, 0)]

\* supervisor.py 55-74 and 84-97: the answer to POST /spawn/{alias}.  A
\* status of 400 or more and a failed connection raise RuntimeError, which
\* neither get_worker nor the handlers of main.py catch.  Otherwise the
\* worker is noted and POST /touch/{alias} is called.
SpawnReply(kind, port) ==
    /\ gw.pc = "spawn"
    /\ UNCHANGED <<config_models, est>> /\ UNCHANGED inside
    /\ LET g == [gw EXCEPT !.reply = [status |-> ManagerStatus(kind), detail |-> kind]]
       IN  IF kind = "WorkerRecord"
           THEN gw' = [g EXCEPT !.pc = "touch", !.port = port,
                                !.workers = @ \cup {g.alias},
                                !.calls = Call(g, "touch", g.alias, 0)]
           ELSE gw' = Uncaught(g)

\* supervisor.py 97-99: the answer to POST /touch/{alias}, which is 200
\* whenever the manager answers (worker_manager.py 393-397); then main.py
\* 89-103 posts the payload to the worker's address
TouchReply(reached) ==
    /\ gw.pc = "touch"
    /\ UNCHANGED <<config_models, est>> /\ UNCHANGED inside
    /\ IF reached
       THEN gw' = [gw EXCEPT !.pc = "forward", !.calls = Call(gw, "forward", gw.alias, gw.port)]
       ELSE gw' = Uncaught(gw)

\* main.py 104-107: the worker's JSON is returned as it is; any exception
\* of the call becomes a 500
WorkerReply(answered) ==
    /\ gw.pc = "forward"
    /\ UNCHANGED <<config_models, est>> /\ UNCHANGED inside
    /\ IF answered
       THEN gw' = [gw EXCEPT !.pc = "done", !.status = 200, !.detail = "worker response"]
       ELSE gw' = HTTPException(gw, 500, "Worker error")

\* main.py 302-306 and supervisor.py 101-103: POST /v1/system/evict/{alias}
\* calls POST /stop/{alias} of the manager
evict_worker(a) ==
    /\ gw.pc \in {"idle", "done"}
    /\ UNCHANGED <<config_models, est>> /\ UNCHANGED inside
    /\ LET g == Request("evict", a)
       IN  gw' = [g EXCEPT !.pc = "stop", !.alias = a, !.calls = Call(g, "stop", a, 0)]

\* supervisor.py 104-105 and main.py 307-309: the manager answers 200 or
\* 404 (worker_manager.py 385-390), or cannot be reached
StopReply(kind) ==
    /\ gw.pc = "stop"
    /\ UNCHANGED <<config_models, est>> /\ UNCHANGED inside
    /\ LET g == [gw EXCEPT !.reply = [status |-> ManagerStatus(kind), detail |-> kind]]
       IN  IF kind = "WorkerRecord"
           THEN gw' = [g EXCEPT !.pc = "done", !.status = 200, !.detail = "evicted",
                                !.workers = @ \ {g.alias}]
           ELSE gw' = HTTPException(g, 500, kind)

InitGateway ==
    /\ workers = <<>>
    /\ proc = [p \in Pids |-> NoProc]
    /\ signals = <<>>
    /\ nextPid = 1
    /\ next_port = BasePort
    /\ lock = 0
    /\ waiters = <<>>
    /\ task = [t \in Callers |-> NoTask]
    /\ ret = [t \in Callers |-> NoRet]
    /\ now = 0
    /\ ext = 0
    /\ config_models \in ConfigOrders
    /\ gw = NoGw
    /\ est = NoEst

NextGateway ==
    \/ \E m \in ChatModels : chat_completions(m)
    \/ generate_images
    \/ edit_images
    \/ \E rtask \in Tasks : analyze_image(rtask)
    \/ \E kind \in SpawnAnswers : \E port \in ManagerPorts(gw.alias) : SpawnReply(kind, port)
    \/ \E reached \in BOOLEAN : TouchReply(reached)
    \/ \E answered \in BOOLEAN : WorkerReply(answered)
    \/ \E a \in GatewayCatalog : evict_worker(a)
    \/ \E kind \in {"WorkerRecord", "NotFound", "ConnectError"} : StopReply(kind)

SpecGateway == InitGateway /\ [][NextGateway]_vars

----------------------------------------------------------------------------
(* get_model_memory_requirement called on the paths and types a            *)
(* config.yaml may name                                                    *)

ModelTypes == {"vlm", "diffusion", "audio"}

InitEstimate ==
    /\ workers = <<>>
    /\ proc = [p \in Pids |-> NoProc]
    /\ signals = <<>>
    /\ nextPid = 1
    /\ next_port = BasePort
    /\ lock = 0
    /\ waiters = <<>>
    /\ task = [t \in Callers |-> NoTask]
    /\ ret = [t \in Callers |-> NoRet]
    /\ now = 0
    /\ ext = 0
    /\ config_models = <<"vlm-fast", "vlm-best", "custom", "image-gen">>
    /\ gw = NoGw
    /\ \E path \in KnownPaths \cup OtherPaths : \E type \in ModelTypes :
          est = [path |-> path, type |-> type, gb |-> -1]

Estimate ==
    /\ est.gb = -1
    /\ est' = [est EXCEPT !.gb = get_model_memory_requirement(est.path, est.type)]
    /\ UNCHANGED <<config_models, gw>> /\ UNCHANGED inside

NextEstimate == Estimate

SpecEstimate == InitEstimate /\ [][NextEstimate]_vars

----------------------------------------------------------------------------
(* Properties *)

WorkerPids(W) == {W[k].pid : k \in 1..Len(W)}
Done(t) == task[t].pc = "done"
Returned(t) == Done(t) /\ ret[t].kind = "WorkerRecord"
NoChildExited == \A p \in Pids : proc[p].state # "exited"
RecordsAgree ==
    \A t, u \in Callers :
        Returned(t) /\ Returned(u) => ret[t].pid = ret[u].pid /\ ret[t].port = ret[u].port

C2_ClassifiedOutcomes ==
    \A t \in Callers :
        Done(t) => ret[t].kind \in {"WorkerRecord", "NotFound", "OutOfMemory",
                                    "StartupFailure"}

\* C3: while a spawn call holds the supervisor lock, no stop, stop-all or
\* sweep removes a record from the worker map.
C3_LockSerializesStop ==
    [][(lock # 0 /\ ((\E a \in Aliases : Stop(a)) \/ StopAll \/ Sweep))
          => WorkerPids(workers') = WorkerPids(workers)]_vars

\* C4: the worker map holds no record whose child has not yet passed its
\* first health check.
C4_RecordsOnlyAfterReady ==
    \A t \in Callers :
        (task[t].pc = "hc_poll" /\ task[t].hres # "ok")
            => task[t].pid \notin WorkerPids(workers)

\* C5: spawn on a record whose child runs and answers the health check
\* returns that record, starts no child, allocates no port, stops nothing
\* and changes only the record's last_used.
C5_IdempotentSpawn ==
    [][\A t \in Callers :
         (task[t].pc = "hc_fast" /\ task[t].hres = "ok" /\ SpawnFastResume(t)) =>
            /\ ret'[t] = [kind |-> "WorkerRecord", pid |-> task[t].pid,
                          port |-> task[t].port]
            /\ InWorkers(workers, task[t].alias) =>
                  /\ WorkerOf(workers, task[t].alias).pid = ret'[t].pid
                  /\ WorkerOf(workers, task[t].alias).port = ret'[t].port
            /\ signals' = <<>> /\ UNCHANGED <<proc, nextPid, next_port>>
            /\ Len(workers') = Len(workers)
            /\ \A k \in 1..Len(workers) :
                  workers'[k] = IF workers[k].pid = task[t].pid
                                THEN [workers[k] EXCEPT !.last_used = now]
                                ELSE workers[k]]_vars

\* a call has returned a record that was refreshed and never touched
C5_Witness ==
    \E t \in Callers : \E k \in 1..Len(workers) :
        /\ Returned(t)
        /\ task[t].drop = NoDrop
        /\ workers[k].pid = ret[t].pid
        /\ workers[k].last_used > workers[k].started_at
        /\ workers[k].request_count = 0

\* C6: a spawn that finds the record of an exited child discards it, and
\* ends with the record of a child created afterwards or with NotFound,
\* OutOfMemory or StartupFailure; it never returns the dead record.
C6_NeverReturnsDeadRecord ==
    \A t \in Callers :
        task[t].drop.dead =>
            /\ task[t].drop.pid \notin WorkerPids(workers)
            /\ task[t].pc = "hc_poll" => task[t].pid > task[t].drop.pid
            /\ Done(t) => ret[t].kind \in {"WorkerRecord", "NotFound", "OutOfMemory",
                                           "StartupFailure"}
            /\ Returned(t) => ret[t].pid > task[t].drop.pid

\* a spawn has dropped a dead record and returned the record of a new child
C6_Witness ==
    \E t \in Callers :
        Returned(t) /\ task[t].drop.dead /\ ret[t].pid > task[t].drop.pid

\* C7: stop on a resident alias returns true and a second stop right after
\* it returns false; stop on an alias without record returns false and
\* leaves the map and the children as they are.
C7_IdempotentStop ==
    [][\A a \in Aliases :
         Stop(a) =>
            /\ InWorkers(workers, a) =>
                  /\ stop_worker(workers, proc, a, TRUE).ok
                  /\ ~stop_worker(workers', proc', a, TRUE).ok
            /\ ~InWorkers(workers, a) =>
                  /\ ~stop_worker(workers, proc, a, TRUE).ok
                  /\ workers' = workers
                  /\ proc' = proc]_vars

\* a running worker has been stopped and the map is empty
C7_Witness == signals # <<>> /\ workers = <<>> /\ nextPid > 1

\* C8: after a stop that returns true the record is gone and the child is
\* not running; a running child got SIGTERM first, and SIGKILL after it
\* when it outlived the wait.
C8_StopTerminates ==
    [][\A a \in Aliases :
         (Stop(a) /\ InWorkers(workers, a)) =>
            LET p == WorkerOf(workers, a).pid
            IN /\ ~InWorkers(workers', a)
               /\ proc'[p].state = "exited"
               /\ proc[p].state \in {"starting", "ready"} =>
                     signals' \in {<<"SIGTERM">>, <<"SIGTERM", "SIGKILL">>}]_vars

\* a child has been stopped with SIGTERM and SIGKILL
C8_Witness ==
    /\ signals = <<"SIGTERM", "SIGKILL">>
    /\ \E p \in Pids : proc[p].state = "exited"

\* C9: touch on a resident alias sets last_used to the current time and
\* adds one to request_count, and changes nothing else; touch on an absent
\* alias changes nothing.
C9_TouchEffect ==
    [][\A a \in Aliases :
         Touch(a) =>
            /\ signals' = <<>>
            /\ UNCHANGED <<proc, nextPid, next_port, lock, waiters, task, ret, now, ext>>
            /\ Len(workers') = Len(workers)
            /\ \A k \in 1..Len(workers) :
                  workers'[k] = IF workers[k].alias = a
                                THEN [workers[k] EXCEPT
                                        !.last_used = now,
                                        !.request_count = workers[k].request_count + 1]
                                ELSE workers[k]]_vars

\* a record has been touched once, later than it was created
C9_Witness ==
    \E k \in 1..Len(workers) :
        workers[k].request_count = 1 /\ workers[k].last_used > workers[k].started_at

----------------------------------------------------------------------------
(* Admission and eviction *)

\* required_gb of the load behind an alias
Required(a) == get_model_memory_requirement(ModelPath(a), ModelType(a))

\* the admission rule in the words of the specification
EffectiveAvailable(avail) ==
    IF avail - safety_margin_gb > 0 THEN avail - safety_margin_gb ELSE 0
Fits(avail, req) == EffectiveAvailable(avail) >= req

\* the step of call t that starts its child
Launches(t) == task[t].pc \in {"wait", "hc_fast", "evict_sleep"} /\ task'[t].pc = "hc_poll"

\* the step of call t that ends it with MemoryError
RunsOutOfMemory(t) ==
    /\ task[t].pc \in {"wait", "hc_fast", "evict_sleep"}
    /\ task'[t].pc = "done"
    /\ ret'[t].kind = "OutOfMemory"

\* C11: spawn starts the child exactly when, on the probe it decides by,
\* max(0, available - safety margin) >= required; and a spawn that starts
\* the child without an eviction round stops no resident worker.
C11_AdmissionCheck ==
    [][\A t \in Callers :
         /\ Launches(t) => Fits(get_memory_status(proc, ext'), Required(task[t].alias))
         /\ RunsOutOfMemory(t) =>
               ~Fits(get_memory_status(proc, ext'), Required(task[t].alias))
         /\ (Launches(t) /\ task[t].pc # "evict_sleep") =>
               /\ signals' = <<>>
               /\ \A p \in Pids : Alive(proc, p) => Alive(proc', p)
               /\ \A k \in 1..Len(workers) :
                     workers[k].alias # task[t].alias => workers[k] \in Range(workers')]_vars

\* a child has been started next to a resident worker, with no eviction
C11_Witness ==
    \E t \in Callers :
        /\ task[t].pc = "hc_poll"
        /\ task[t].freed = 0
        /\ Len(workers) = 2
        /\ \A k \in 1..Len(workers) : Alive(proc, workers[k].pid)

\* the records a step takes out of the map
Removed == {w \in Range(workers) : w.pid \notin WorkerPids(workers')}

\* position of a record in the map
IndexOf(w) == CHOOSE k \in 1..Len(workers) : workers[k] = w

\* a step of call t that is one round of the eviction loop
EvictStep(t) ==
    /\ task[t].pc \in {"wait", "hc_fast", "evict_sleep"}
    /\ task'[t].pc = "evict_sleep"
    /\ task'[t].freed > task[t].freed

EvictionEnds(t) == task[t].pc = "evict_sleep" /\ task'[t].pc # "evict_sleep"

\* available_gb as _evict_for_memory read it when it computed to_free
AvailableAtPlan(t) == Required(task[t].alias) - task[t].to_free + safety_margin_gb

\* the probe of the re-check finds exactly what the evictions were counted
\* to free, on top of what was available before
AccurateAccounting(t) ==
    get_memory_status(proc, ext') = AvailableAtPlan(t) + task[t].freed

\* C13: when the workers chosen for eviction have all been stopped and the
\* memory they were counted for has come back exactly, the admission check
\* that follows lets the load in.
C13_EvictionSuffices ==
    [][\A t \in Callers :
         (EvictionEnds(t) /\ AccurateAccounting(t)) => task'[t].pc = "hc_poll"]_vars

\* C14: after its evictions spawn decides by a fresh probe: it starts the
\* child when available - safety margin >= required on that probe, and
\* otherwise ends with OutOfMemory (503) and starts no child.
C14_ProbeDecides ==
    [][\A t \in Callers : EvictionEnds(t) =>
         IF get_memory_status(proc, ext') - safety_margin_gb >= Required(task[t].alias)
         THEN /\ task'[t].pc = "hc_poll"
              /\ nextPid' = nextPid + 1
              /\ Alive(proc', task'[t].pid)
         ELSE /\ task'[t].pc = "done"
              /\ ret'[t].kind = "OutOfMemory"
              /\ HttpStatus(ret'[t].kind) = 503
              /\ nextPid' = nextPid
              /\ proc' = proc]_vars

\* a child has been started after an eviction
C14_Witness ==
    \E t \in Callers :
        /\ task[t].pc = "hc_poll"
        /\ task[t].freed > 0
        /\ task[t].pid \in WorkerPids(workers)

----------------------------------------------------------------------------
(* The idle monitor *)

\* the record of child p is in the map and was last used more than the idle
\* timeout ago
Overdue(p) ==
    \E k \in 1..Len(workers) :
        workers[k].pid = p /\ now - workers[k].last_used > IDLE_TIMEOUT_SECONDS

\* the record of child p is in the map and has counted the requests that
\* call for a restart
AtRequestLimit(p) ==
    \E k \in 1..Len(workers) :
        workers[k].pid = p /\ workers[k].request_count >= MAX_REQUESTS_BEFORE_RESTART

\* C15: a sweep removes the record of every running worker that it finds
\* idle for more than the idle timeout and ends its child; and a worker
\* idle for that long does not stay so: it is swept, unless it is used again.
C15_IdleSwept ==
    /\ [][Sweep =>
            \A p \in Pids :
               (Overdue(p) /\ Alive(proc, p)) =>
                  (p \notin WorkerPids(workers') /\ ~Alive(proc', p))]_vars
    /\ \A p \in Pids : Overdue(p) ~> ~Overdue(p)

\* a sweep has stopped a running worker after the clock went on
C15_Witness ==
    /\ signals # <<>>
    /\ now > IDLE_TIMEOUT_SECONDS
    /\ \E p \in Pids : proc[p].state = "exited" /\ p \notin WorkerPids(workers)

\* C16: a sweep removes the record of every running worker whose
\* request_count has reached MAX_REQUESTS_BEFORE_RESTART, idle or not, and
\* ends its child; and such a worker is swept eventually.
C16_RecycleSwept ==
    /\ [][Sweep =>
            \A p \in Pids :
               (AtRequestLimit(p) /\ Alive(proc, p)) =>
                  (p \notin WorkerPids(workers') /\ ~Alive(proc', p))]_vars
    /\ \A p \in Pids : AtRequestLimit(p) ~> (p \notin WorkerPids(workers))

\* a sweep has stopped a running worker that was not idle: the clock has
\* not moved since the workers started
C16_Witness ==
    /\ signals # <<>>
    /\ now = 0
    /\ \E p \in Pids : proc[p].state = "exited" /\ p \notin WorkerPids(workers)

\* a sweep removes every record whose child has exited
SweepDropsDead ==
    Sweep => \A k \in 1..Len(workers) :
                ~Alive(proc, workers[k].pid) => workers[k].pid \notin WorkerPids(workers')

\* call t takes the lock and finds no record of its (configured) alias
FindsNoRecord(t) ==
    /\ task[t].pc = "wait"
    /\ task'[t].pc # "wait"
    /\ task[t].alias \in ConfigModels
    /\ ~InWorkers(workers, task[t].alias)

\* call t, which had found no record, comes out of its eviction rounds
NoRecordEvictionEnds(t) == EvictionEnds(t) /\ task[t].drop = NoDrop

\* the step of call t starts a child that did not exist before, with a
\* record of its own
StartsFreshChild(t) ==
    /\ task'[t].pc = "hc_poll"
    /\ task'[t].pid = nextPid
    /\ proc[nextPid].state = "none"
    /\ Alive(proc', nextPid)
    /\ InWorkers(workers', task[t].alias)
    /\ WorkerOf(workers', task[t].alias) =
          WorkerProcess(task[t].alias, nextPid, task'[t].port,
                        Required(task[t].alias), now)

\* C17 as stated: the sweep removes the record of an exited child, and the
\* next spawn for the alias, finding no record, starts a fresh child.
C17_DeadSweptThenRespawned ==
    [][/\ SweepDropsDead
       /\ \A t \in Callers :
             /\ FindsNoRecord(t) =>
                   (StartsFreshChild(t) \/ task'[t].pc = "evict_sleep")
             /\ NoRecordEvictionEnds(t) => StartsFreshChild(t)]_vars

\* C17 amended: the sweep removes the record of an exited child, and the
\* next spawn for the alias goes through admission anew: it starts a fresh
\* child, or it ends with OutOfMemory and starts none.
C17_DeadSweptThenAdmitted ==
    [][/\ SweepDropsDead
       /\ \A t \in Callers :
             /\ FindsNoRecord(t) =>
                   \/ StartsFreshChild(t)
                   \/ task'[t].pc = "evict_sleep"
                   \/ RunsOutOfMemory(t) /\ nextPid' = nextPid
             /\ NoRecordEvictionEnds(t) =>
                   \/ StartsFreshChild(t)
                   \/ RunsOutOfMemory(t) /\ nextPid' = nextPid]_vars

\* an earlier child has exited and its record is gone, and a spawn that
\* found no record has started the next child
C17_Witness ==
    \E t \in Callers :
        /\ task[t].pc = "hc_poll"
        /\ task[t].drop = NoDrop
        /\ task[t].freed = 0
        /\ task[t].pid > 1
        /\ workers = <<WorkerProcess(task[t].alias, task[t].pid, task[t].port,
                                     Required(task[t].alias), now)>>
        /\ \E p \in Pids : proc[p].state = "exited"

----------------------------------------------------------------------------
(* The map, shutdown and the HTTP answers *)

\* C18: no two records of the map have the same alias or the same port: a
\* fixed alias has its own port below the dynamic range, and every dynamic
\* port in the map was handed out before the next one to hand out.
C18_UniqueAliasAndPort ==
    /\ \A i, j \in 1..Len(workers) :
          i # j => /\ workers[i].alias # workers[j].alias
                   /\ workers[i].port # workers[j].port
    /\ \A k \in 1..Len(workers) :
          IF workers[k].alias \in FixedAliases
          THEN workers[k].port = port_map(workers[k].alias) /\ workers[k].port < BasePort
          ELSE BasePort <= workers[k].port /\ workers[k].port < next_port

\* two workers are resident and run, one on a fixed and one on a dynamic port
C18_Witness ==
    /\ Len(workers) = 2
    /\ \A k \in 1..Len(workers) : Alive(proc, workers[k].pid)
    /\ \E k \in 1..Len(workers) : workers[k].port >= BasePort

\* C19: when stop-all (or the shutdown of the manager) completes, the map
\* is empty and no child the manager has started is running.
C19_StopAllLeavesNothing ==
    [][StopAll => (workers' = <<>> /\ \A p \in Pids : ~Alive(proc', p))]_vars

\* C20: POST /spawn answers 404 exactly for an unknown alias, 503 for
\* OutOfMemory, 500 for a worker that did not become ready, and 200 in
\* every other case.
C20_SpawnStatus ==
    \A t \in Callers :
        Done(t) =>
            /\ (HttpStatus(ret[t].kind) = 404) <=> (task[t].alias \notin ConfigModels)
            /\ HttpStatus(ret[t].kind) =
                  CASE ret[t].kind = "NotFound"       -> 404
                    [] ret[t].kind = "OutOfMemory"    -> 503
                    [] ret[t].kind = "StartupFailure" -> 500
                    [] OTHER                          -> 200

----------------------------------------------------------------------------
(* The gateway's dispatch *)

\* the calls the gateway has made for the request in progress
CallsTo(call) == {i \in 1..Len(gw.calls) : gw.calls[i].call = call}
Dispatching == gw.endpoint \in {"chat", "generate", "edit", "analyze"}

\* the manager answered the spawn call of the request with an error of its
\* handler: 404, 503 or 500 with a detail
ManagerRefused ==
    /\ Dispatching
    /\ gw.reply.detail \in {"NotFound", "OutOfMemory", "StartupFailure"}

\* C21: when the manager's /spawn/{alias} answers 404, 503 or 500, the
\* gateway answers its client with the same status code and the manager's
\* detail, and forwards the payload to no worker.
C21_PropagatesManagerError ==
    ManagerRefused =>
        /\ gw.pc = "done"
        /\ gw.status = gw.reply.status
        /\ gw.detail = gw.reply.detail
        /\ CallsTo("forward") = {}

\* the model names of ChatModels that contain "gpt" or "claude" in any case
SuggestsRemote == {"GPT-4o", "my-Claude", "claude-3"}

RECURSIVE FirstVlm(_)
FirstVlm(q) ==
    IF q = <<>> THEN ""
    ELSE IF ModelType(Head(q)) = "vlm" THEN Head(q)
    ELSE FirstVlm(Tail(q))

\* C23: a vision analysis is dispatched to vlm-best for the tasks analyze
\* and describe and to vlm-fast for every other task; when the chosen alias
\* is not configured, to the first configured model of type vlm; so the
\* alias it is dispatched to is always a configured model of type vlm.
C23_AnalyzeDispatch ==
    (gw.endpoint = "analyze" /\ gw.alias # "") =>
        LET chosen == IF gw.arg \in {"analyze", "describe"} THEN "vlm-best" ELSE "vlm-fast"
        IN  /\ gw.alias = (IF Configured(chosen) THEN chosen ELSE FirstVlm(config_models))
            /\ Configured(gw.alias)
            /\ ModelType(gw.alias) = "vlm"

\* C24: image generation and image edit requests are always dispatched to
\* image-gen; when image-gen is not configured they are answered 404 and
\* neither the manager nor a worker is contacted.
C24_ImageDispatch ==
    gw.endpoint \in {"generate", "edit"} =>
        IF Configured("image-gen")
        THEN /\ gw.alias = "image-gen"
             /\ \A i \in 1..Len(gw.calls) : gw.calls[i].alias = "image-gen"
             /\ gw.calls # <<>>
        ELSE /\ gw.pc = "done"
             /\ gw.status = 404
             /\ gw.calls = <<>>

\* an edit request with other models but no image-gen in the configuration
C24_Witness ==
    /\ gw.endpoint = "edit"
    /\ config_models # <<>>
    /\ ~Configured("image-gen")
    /\ gw.status = 404

----------------------------------------------------------------------------
(* The memory budget *)

\* the records whose child runs, and the memory_gb they add up to
LiveRecords == {k \in 1..Len(workers) : Alive(proc, workers[k].pid)}
RECURSIVE SumMemoryGb(_)
SumMemoryGb(K) ==
    IF K = {} THEN 0
    ELSE LET k == CHOOSE j \in K : TRUE
         IN workers[k].memory_gb + SumMemoryGb(K \ {k})

\* C25: in every reachable state, with every running child holding the
\* memory_gb of its record (so that a probe reports at most the total minus
\* the memory_gb of the live workers), the memory_gb of the live records
\* plus safety_margin_gb add up to at most the total memory.
C25_MemoryBudget == SumMemoryGb(LiveRecords) + safety_margin_gb <= TotalMemory

\* a spawn has been admitted and the budget is used up to the last unit
C25_Witness ==
    /\ \E t \in Callers : Returned(t) /\ InWorkers(workers, task[t].alias)
    /\ SumMemoryGb(LiveRecords) + safety_margin_gb = TotalMemory

----------------------------------------------------------------------------
(* The memory estimate *)

\* the size patterns that occur in each path of OtherPaths, whatever the
\* case of their letters
SizePatterns(path) ==
    CASE path = "mlx-community/qwen2.5-vl-3b-instruct-4bit" -> {"3b"}
      [] path = "acme/Llama-14B"  -> {"14b"}
      [] path = "acme/mix-7b-14B" -> {"7b", "14b"}
      [] path = "acme/Mistral-7B" -> {"7b"}
      [] path = "acme/Llama-13B"  -> {"3b"}
      [] path = "acme/Phi-3b-7B"  -> {"3b", "7b"}
      [] path = "acme/gemma-2b"   -> {"2b"}
      [] path = "acme/Tiny-1B"    -> {"1b"}
      [] path = "acme/duo-1b-3B"  -> {"1b", "3b"}
      [] OTHER                    -> {}

\* the table of the exact matches, in GB
TableGb(path) ==
    CASE path = "mlx-community/moondream2"                    -> <<1, 5>>
      [] path = "mlx-community/Qwen2.5-VL-3B-Instruct-4bit"   -> <<2, 5>>
      [] path = "mlx-community/Qwen2.5-VL-7B-Instruct-4bit"   -> <<4, 5>>
      [] path = "mlx-community/Qwen2.5-VL-14B-Instruct-4bit"  -> <<8, 0>>
      [] path = "mlx-community/FLUX.1-schnell-4bit-mlx"       -> <<6, 0>>
      [] path = "mlx-community/FLUX.1-dev-4bit-mlx"           -> <<12, 0>>
      [] path = "Qwen/Qwen-Image-2512"                        -> <<20, 0>>
      [] path = "_default_vlm"                                -> <<3, 0>>
      [] path = "_default_diffusion"                          -> <<8, 0>>
      [] path = "_default_cuda_diffusion"                     -> <<20, 0>>
      [] OTHER                                                -> <<>>

\* GB with one decimal, in the unit of the model
HalfGb(gb) == 2 * gb[1] + gb[2] \div 5

\* C26: the estimated footprint is a function of (path, type): the table
\* value on an exact match of the path; else, by the pattern found in the
\* path in any case, in this precedence: 14b gives 8.0, 7b gives 4.5, 3b
\* gives 2.5, 2b or 1b gives 1.5; else 8.0 for type diffusion and 3.0 for
\* type vlm.
C26_Estimate ==
    est.gb # -1 =>
        LET found == SizePatterns(est.path)
        IN  IF TableGb(est.path) # <<>> THEN est.gb = HalfGb(TableGb(est.path))
            ELSE IF "14b" \in found THEN est.gb = HalfGb(<<8, 0>>)
            ELSE IF "7b" \in found THEN est.gb = HalfGb(<<4, 5>>)
            ELSE IF "3b" \in found THEN est.gb = HalfGb(<<2, 5>>)
            ELSE IF "2b" \in found \/ "1b" \in found THEN est.gb = HalfGb(<<1, 5>>)
            ELSE /\ est.type = "diffusion" => est.gb = HalfGb(<<8, 0>>)
                 /\ est.type = "vlm" => est.gb = HalfGb(<<3, 0>>)

\* a path outside the table that names two sizes, the larger one in capitals
C26_Witness ==
    /\ est.path = "acme/mix-7b-14B"
    /\ est.gb = 16

----------------------------------------------------------------------------
(* Children and records *)

\* C27: every child the manager has started and that still runs is the
\* child of a record in the map: spawn never drops a record and leaves its
\* child running, so no worker runs without a record and no alias has two
\* running children.
C27_NoChildWithoutRecord ==
    \A p \in Pids : Alive(proc, p) => p \in WorkerPids(workers)

\* C28: whenever spawn returns a WorkerRecord, at that moment the record is
\* in the map, its own child runs, and it is that child, not another
\* process on the same port, that serves the port and answered the health
\* check; whatever stop, stop-all and the sweep did in between.
C28_ReturnedRecordServes ==
    \A t \in Callers :
        Returned(t) =>
            /\ InWorkers(workers, task[t].alias)
            /\ WorkerOf(workers, task[t].alias).pid = ret[t].pid
            /\ proc[ret[t].pid].state = "ready"
            /\ proc[ret[t].pid].port = ret[t].port

----------------------------------------------------------------------------
(* The eviction loop *)

\* a round of the loop that follows another round
LaterEvictStep(t) == task[t].pc = "evict_sleep" /\ EvictStep(t)

\* the memory_gb of the records a step takes out of the map
RECURSIVE SumRemoved(_)
SumRemoved(R) ==
    IF R = {} THEN 0
    ELSE LET r == CHOOSE x \in R : TRUE
         IN r.memory_gb + SumRemoved(R \ {r})

\* C29 as stated: spawn probes memory again after each stop and stops no
\* further resident once a probe shows that the load fits.  No probe is
\* taken between two rounds; what one would report depends on what other
\* programs hold at that time, which is one of ExtVals.
C29_ReprobeSpares ==
    [][\A t \in Callers : LaterEvictStep(t) =>
         \A e \in ExtVals : ~can_load_model(task[t].alias, proc, e)]_vars

\* C29 amended: between two stops spawn takes no probe; it goes by the
\* deficit computed before the first stop and by the memory_gb of the
\* residents stopped so far, stops a further resident only while that sum
\* is below the deficit, and leaves the loop with residents still on the
\* list only when the sum has reached the deficit.
C29_CountedNotProbed ==
    [][\A t \in Callers :
         /\ LaterEvictStep(t) =>
               /\ ext' = ext
               /\ task'[t].to_free = task[t].to_free
               /\ task[t].freed < task[t].to_free
               /\ task'[t].freed = task[t].freed + SumRemoved(Removed)
         /\ (EvictionEnds(t) /\ task[t].evq # <<>>) =>
               task[t].freed >= task[t].to_free]_vars

\* a resident was stopped, the sum reached the deficit, and another
\* resident was spared and is next to the new child
C29_Witness ==
    \E t \in Callers :
        /\ task[t].pc = "hc_poll"
        /\ task[t].freed > 0
        /\ task[t].freed >= task[t].to_free
        /\ Len(workers) = 2
        /\ \A k \in 1..Len(workers) : Alive(proc, workers[k].pid)

\* the first round of an eviction
FirstEvictStep(t) == task[t].pc # "evict_sleep" /\ EvictStep(t)

\* the residents in the order of the eviction, as records of the map
EvictionOrder(t) ==
    IF task[t].pc = "evict_sleep" THEN task[t].evq
    ELSE [k \in 1..Len(workers) |-> EvictEntry(workers_by_idle(workers)[k])]

\* what the rounds before this step have counted
FreedBefore(t) == IF task[t].pc = "evict_sleep" THEN task[t].freed ELSE 0

\* C30 as stated: the residents stopped are the shortest prefix of the
\* ordered list whose memory_gb add up to at least
\* required - max(0, available - safety margin): a round stops a resident
\* only while the residents stopped before it add up to less than that.
C30_ClampedPrefix ==
    [][\A t \in Callers : EvictStep(t) =>
         FreedBefore(t) < Required(task'[t].alias)
                            - EffectiveAvailable(AvailableAtPlan(t)')]_vars

\* C30 amended: the deficit is required - (available - safety margin), not
\* cut off at zero, on the probe taken before the first stop; every round
\* stops the next resident of the ordered list, and only while the
\* residents stopped before it add up to less than the deficit; the step
\* that leaves the loop stops no resident, and leaves it with residents on
\* the list only when the sum has reached the deficit.
C30_UnclampedPrefix ==
    [][\A t \in Callers :
         /\ FirstEvictStep(t) =>
               task'[t].to_free = Required(task'[t].alias)
                                    - (get_memory_status(proc, ext') - safety_margin_gb)
         /\ EvictStep(t) =>
               /\ FreedBefore(t) < task'[t].to_free
               /\ {EvictEntry(r) : r \in Removed} = {Head(EvictionOrder(t))}
               /\ task'[t].evq = Tail(EvictionOrder(t))
         /\ EvictionEnds(t) =>
               /\ Removed = {}
               /\ task[t].evq # <<>> => task[t].freed >= task[t].to_free]_vars

\* less than the safety margin was available, and the second resident is
\* stopped after the first one alone had freed what the load requires
C30_Witness ==
    \E t \in Callers :
        /\ task[t].pc = "evict_sleep"
        /\ AvailableAtPlan(t) < safety_margin_gb
        /\ task[t].freed > Required(task[t].alias)
        /\ task[t].freed - Required("vlm-fast") >= Required(task[t].alias)
        /\ workers = <<>>

----------------------------------------------------------------------------
(* What the sweep leaves alone *)

\* the record's child runs, it has been used within the idle timeout and
\* has served fewer requests than call for a restart
InGoodStanding(w) ==
    /\ Alive(proc, w.pid)
    /\ now - w.last_used <= IDLE_TIMEOUT_SECONDS
    /\ w.request_count < MAX_REQUESTS_BEFORE_RESTART

\* C31: a sweep stops only the workers it marked: a worker whose child
\* runs, that has been idle for at most the idle timeout and whose
\* request_count is below MAX_REQUESTS_BEFORE_RESTART is not stopped by the
\* sweep, and its record stays as it is.
C31_SweepSparesTheRest ==
    [][Sweep =>
         \A k \in 1..Len(workers) :
            InGoodStanding(workers[k]) =>
               /\ workers[k] \in Range(workers')
               /\ proc'[workers[k].pid] = proc[workers[k].pid]]_vars

\* a sweep has just stopped a worker and left another one, which runs
C31_Witness ==
    /\ signals # <<>>
    /\ workers # <<>>
    /\ \A k \in 1..Len(workers) : InGoodStanding(workers[k])

----------------------------------------------------------------------------
(* Failed spawns *)

\* C32: a spawn that ends with OutOfMemory leaves the alias without a
\* record, has started no child and taken no port, and has stopped no
\* resident worker: the workers that were resident before the call still
\* are.
C32_OutOfMemoryChangesNothing ==
    [][\A t \in Callers : RunsOutOfMemory(t) =>
         /\ ~InWorkers(workers', task[t].alias)
         /\ task[t].pid = 0
         /\ nextPid' = nextPid
         /\ next_port' = next_port
         /\ proc' = proc
         /\ workers' = workers
         /\ task[t].freed = 0]_vars

\* the last round of the startup poll of call t ends without an answer
PollTimesOut(t) ==
    /\ task[t].pc = "hc_poll"
    /\ task[t].hres # "ok"
    /\ task[t].i + 1 >= StartupPolls
    /\ SpawnPollResume(t)

\* C33: when the health check of a started child has not been answered by
\* the end of the startup poll, spawn stops the child, with SIGKILL if
\* SIGTERM does not end it, and returns StartupFailure (500); after that
\* the alias has no record and the child does not run.
C33_StartupTimeout ==
    [][\A t \in Callers : PollTimesOut(t) =>
         /\ ret'[t].kind = "StartupFailure"
         /\ HttpStatus(ret'[t].kind) = 500
         /\ ~InWorkers(workers', task[t].alias)
         /\ ~Alive(proc', task[t].pid)
         /\ Alive(proc, task[t].pid) => signals' # <<>>
         /\ lock' = 0]_vars

\* a spawn has given up on a child that was still starting and has ended it
C33_Witness ==
    \E t \in Callers :
        /\ Done(t)
        /\ ret[t].kind = "StartupFailure"
        /\ signals # <<>>
        /\ nextPid = 2
        /\ proc[1].state = "exited"

----------------------------------------------------------------------------
(* Recycling *)

\* a sweep removes every running worker that has reached the request limit
SweepRecycles ==
    Sweep => \A p \in Pids :
                (AtRequestLimit(p) /\ Alive(proc, p)) =>
                    (p \notin WorkerPids(workers') /\ ~Alive(proc', p))

\* the step of call t starts a child under a pid no child had before and
\* gives it a record that has counted no request and is as old as the step
StartsFromZero(t) ==
    /\ task'[t].pc = "hc_poll"
    /\ proc[nextPid].state = "none"
    /\ Alive(proc', nextPid)
    /\ InWorkers(workers', task[t].alias)
    /\ LET w == WorkerOf(workers', task[t].alias)
       IN  /\ w.pid = nextPid
           /\ w.request_count = 0
           /\ w.started_at = now
           /\ w.last_used = now

\* C34 as stated: the sweep stops a worker that has reached the request
\* limit, and the next spawn of the alias, which finds no record, creates a
\* new child (new pid) whose record has request_count = 0 and started_at
\* and last_used of that moment.
C34_RecycledThenFresh ==
    [][/\ SweepRecycles
       /\ \A t \in Callers :
             /\ FindsNoRecord(t) => (StartsFromZero(t) \/ task'[t].pc = "evict_sleep")
             /\ NoRecordEvictionEnds(t) => StartsFromZero(t)]_vars

\* C34 amended: the next spawn of the alias goes through admission; when
\* it is admitted it creates a new child (new pid) whose record has
\* request_count = 0 and started_at and last_used of that moment, and
\* otherwise it ends with OutOfMemory and creates none.
C34_RecycledThenAdmittedFresh ==
    [][/\ SweepRecycles
       /\ \A t \in Callers :
             /\ FindsNoRecord(t) =>
                   \/ StartsFromZero(t)
                   \/ task'[t].pc = "evict_sleep"
                   \/ RunsOutOfMemory(t) /\ nextPid' = nextPid /\ workers' = workers
             /\ NoRecordEvictionEnds(t) =>
                   \/ StartsFromZero(t)
                   \/ RunsOutOfMemory(t) /\ nextPid' = nextPid /\ workers' = workers]_vars

\* the resident worker is gone and its child has ended, no spawn has
\* evicted anything, and the alias has a new child with a record that has
\* counted nothing
C34_Witness ==
    \E t \in Callers :
        /\ task[t].pc = "hc_poll"
        /\ task[t].freed = 0
        /\ nextPid = 2
        /\ proc[MaxPid + 1].state = "exited"
        /\ Len(workers) = 1
        /\ workers[1].pid = 1
        /\ workers[1].port = ResidentPort(workers[1].alias)
        /\ workers[1].request_count = 0

----------------------------------------------------------------------------
(* Port allocation *)

\* the port a record of alias a may hold while the pool stands at np
PortInPlace(a, port, np) ==
    CASE a = "vlm-fast"  -> port = 8001
      [] a = "vlm-best"  -> port = 8002
      [] a = "image-gen" -> port = 8003
      [] OTHER           -> port >= 8010 /\ port < np /\ port \notin {8001, 8002, 8003}

\* C35: vlm-fast, vlm-best and image-gen get 8001, 8002 and 8003 on every
\* spawn; any other alias gets the next port of the pool, which starts at
\* the base port and only grows, so that a pool port is handed out once and
\* is never a fixed port; and the pool changes only in the step of a spawn
\* that holds the lock.
C35_PortAllocation ==
    [][/\ next_port' >= next_port
       /\ next_port >= 8010
       /\ \A k \in 1..Len(workers) :
             PortInPlace(workers[k].alias, workers[k].port, next_port)
       /\ \A t \in Callers :
             Launches(t) =>
                /\ lock' = t
                /\ lock \in {0, t}
                /\ WorkerOf(workers', task[t].alias).port = task'[t].port
                /\ PortInPlace(task[t].alias, task'[t].port, next_port')
                /\ IF task[t].alias \in {"vlm-fast", "vlm-best", "image-gen"}
                   THEN next_port' = next_port
                   ELSE /\ task'[t].port = next_port
                        /\ next_port' = next_port + 1
                        /\ \A p \in Pids : proc[p].port # task'[t].port
                        /\ \A k \in 1..Len(workers) : workers[k].port # task'[t].port
       /\ next_port' # next_port => \E t \in Callers : Launches(t)]_vars

\* two spawns have started children: one on a fixed port, and one on the
\* second port of the pool after the first had gone to a worker since
\* recycled
C35_Witness ==
    /\ next_port = 8012
    /\ \E j, k \in 1..Len(workers) :
          /\ workers[j].alias = "custom"
          /\ workers[j].pid <= MaxPid
          /\ workers[j].port = 8011
          /\ workers[k].alias = "vlm-fast"
          /\ workers[k].pid <= MaxPid
          /\ workers[k].port = 8001

----------------------------------------------------------------------------
(* The calls of one public request *)

\* the manager has answered the spawn call of the request with a record
SpawnSucceeded == gw.reply = [status |-> 200, detail |-> "WorkerRecord"]

\* C36: a public request calls spawn, then touch, then the worker, on the
\* port the spawn call returned, and each once; the payload goes to no
\* worker unless the spawn call of the request has succeeded.
C36_SpawnTouchForward ==
    Dispatching =>
        /\ Len(gw.calls) <= 3
        /\ Len(gw.calls) >= 1 =>
              gw.calls[1] = [call |-> "spawn", alias |-> gw.alias, port |-> 0]
        /\ Len(gw.calls) >= 2 =>
              /\ gw.calls[2] = [call |-> "touch", alias |-> gw.alias, port |-> 0]
              /\ SpawnSucceeded
        /\ Len(gw.calls) >= 3 =>
              /\ gw.calls[3] = [call |-> "forward", alias |-> gw.alias, port |-> gw.port]
              /\ gw.port \in ManagerPorts(gw.alias)
        /\ CallsTo("forward") # {} => SpawnSucceeded
        /\ gw.status = 200 => Len(gw.calls) = 3

\* a chat request has been answered by the worker of a pool port
C36_Witness ==
    /\ gw.endpoint = "chat"
    /\ gw.pc = "done"
    /\ gw.status = 200
    /\ gw.alias = "custom"
    /\ gw.calls = <<[call |-> "spawn", alias |-> "custom", port |-> 0],
                    [call |-> "touch", alias |-> "custom", port |-> 0],
                    [call |-> "forward", alias |-> "custom", port |-> 8011]>>

\* C37: the touch call is best-effort: a request whose spawn call has
\* succeeded is not ended before its payload has gone to the worker,
\* whether the touch call succeeds or fails, and it is answered with what
\* the worker's call gives.
C37_TouchBestEffort ==
    (Dispatching /\ SpawnSucceeded /\ gw.pc = "done") =>
        /\ CallsTo("forward") # {}
        /\ gw.detail \in {"worker response", "Worker error"}

\* C38: the gateway calls /spawn only with a configured alias: the alias
\* that the resolution of a chat, image or analyze request produces is in
\* the configured catalog, or the request is answered before the manager
\* is called.
C38_SpawnsConfiguredOnly ==
    Dispatching =>
        /\ \A i \in CallsTo("spawn") : Configured(gw.calls[i].alias)
        /\ gw.calls = <<>> => gw.pc \in {"idle", "done"}

----------------------------------------------------------------------------
(* Termination of spawn *)

\* C39: every spawn call returns in the end, whatever the children do, and
\* has released the lock when it has returned; so a call that waits for
\* the lock comes to hold it.
C39_EverySpawnReturns ==
    /\ \A t \in Callers : (task[t].pc = "wait") ~> (task[t].pc = "done")
    /\ [](\A t \in Callers : task[t].pc = "done" => lock # t)

\* every call has returned and the lock is free, after one call has run
\* out of its startup poll and one has evicted a resident
C39_Witness ==
    /\ \A t \in Callers : Done(t)
    /\ lock = 0
    /\ \E t \in Callers : ret[t].kind = "StartupFailure"
    /\ \E t \in Callers : task[t].freed > 0

----------------------------------------------------------------------------
(* The request count *)

\* the record of the child pid in the map W
RecordOfPid(W, pid) == W[CHOOSE k \in 1..Len(W) : W[k].pid = pid]

\* C40: request_count is the number of touches the record has had since it
\* was created: a new record has 0, a touch of its alias adds exactly one,
\* and no other step, a spawn that finds the worker alive included,
\* changes it.
C40_CountsTouches ==
    [][\A j \in 1..Len(workers') :
          IF workers'[j].pid \in WorkerPids(workers)
          THEN LET w == RecordOfPid(workers, workers'[j].pid)
               IN  /\ workers'[j].alias = w.alias
                   /\ workers'[j].request_count =
                         IF Touch(w.alias) THEN w.request_count + 1
                         ELSE w.request_count
          ELSE workers'[j].request_count = 0]_vars

\* a worker started by a spawn has been touched once, and a later spawn
\* has found it alive and returned it
C40_Witness ==
    \E t \in Callers : \E k \in 1..Len(workers) :
        /\ Returned(t)
        /\ task[t].drop = NoDrop
        /\ task[t].freed = 0
        /\ nextPid = 2
        /\ workers[k].pid = 1
        /\ ret[t].pid = 1
        /\ workers[k].request_count = 1
====
